---- MODULE Spec2Model ----
(***************************************************************************)
(* Geo-distance feed filtering of the GeoRSS events component              *)
(* (homeassistant/components/geo_rss_events.py) and of the NSW Rural Fire  *)
(* Service sensors (custom_components/sensor/nsw_rural_fire_service*.py).  *)
(*                                                                         *)
(* Strings are sequences of one-character strings.  A regular expression   *)
(* is a sequence of atoms; an atom is a character class with a repetition  *)
(* ("1", "+" or "*", greedy) and a flag telling whether it lies inside the *)
(* named group custom_attribute.  Coordinates live on a small integer grid *)
(* and the great-circle distance of the haversine library is abstracted by *)
(* the squared Euclidean distance of the grid.                             *)
(***************************************************************************)
EXTENDS Integers, Sequences, FiniteSets, TLC

VARIABLES
    platform,               \* the platform that configuration.yaml sets up
    radius_in_km,           \* GeoRssFeedManager._radius_in_km
    attributes_definition,  \* GeoRssFeedManager._attributes_definition
    filters_definition,     \* GeoRssFeedManager._filters_definition
    include_in_summary,     \* GeoRssFeedManager._include_attributes_in_summary
    feed,                   \* the entries as parsed from the feed in this cycle
    available_entries,      \* the same entry objects after the loop has updated them
    keep_entries,           \* the local list keep_entries when the loop has ended
    feed_entries,           \* self._feed.entries after the cycle (the kept entries)
    fired,                  \* payloads fired on the bus by the latest cycle
    raised,                 \* exception that escaped the latest cycle, or "none"
    rss_radius,             \* NswRuralFireServiceUpdater._radius_in_km (RSS sensor)
    rss_feed,               \* entries parsed by the RSS sensor in the latest cycle
    rss_incidents,          \* incidents collected by the latest RSS cycle
    rss_state,              \* alert level -> NswRuralFireServiceSensor._state
    rss_raised,             \* exception that escaped the latest RSS cycle
    rss_tasks,              \* alert levels whose state update the latest cycle awaits
    rss_waiting,            \* RSS cycles suspended in asyncio.wait (line 201)
    json_radius,            \* NswRuralFireServiceUpdater._radius_in_km (GeoJSON sensor)
    json_value,             \* self._rest.data of the latest cycle, parsed
    json_incidents,         \* incidents collected by the latest GeoJSON cycle
    json_state,             \* alert level -> NswRuralFireServiceSensor._state
    json_raised,            \* exception that escaped the latest GeoJSON cycle
    json_tasks,             \* alert levels whose state update the latest cycle awaits
    fr_status,              \* outcome of the latest update of the flights feed
    fr_managed,             \* external ids of the flights feed's previous update
    fr_sent,                \* what the entity manager's callbacks sent in the latest update
    fr_pending,             \* ids whose new entity is not yet added to hass
    fr_entities,            \* ids whose entity is added to hass and not removed
    fr_on_delete,           \* ids whose entity is connected to the delete signal
    fr_on_update,           \* ids whose entity is connected to the update signal
    managers,               \* the GeoRssFeedManagers that setup() created
    storage_data,           \* StoredData object -> feed id -> last-seen record
    last_manager,           \* the manager whose cycle ran last (0: none)
    feed_categories,        \* the categories configured for each feed of setup()
    discovered,             \* the load_platform calls of setup() not yet handled
    devices,                \* the binary sensors handed to add_devices
    platform_raised,        \* exception of the latest load of the sensor platform
    bs_category,            \* GeoRssEventBinarySensor._category
    bs_sort_by,             \* sort_entries_by of the sensor's current state
    bs_reverse,             \* sort_entries_reverse of the sensor's current state
    bs_manager,             \* manager.feed_entries at the latest update()
    bs_sorted,              \* the local list entries after line 111 of update()
    bs_state,               \* GeoRssEventBinarySensor._state
    bs_attributes,          \* GeoRssEventBinarySensor._state_attributes
    bs_raised,              \* exception that escaped the latest update()
    num_speed,              \* hub_data[ATTRIBUTES][SPEED] of the diffuser
    num_room,               \* hub_data[ATTRIBUTES][ROOM] of the diffuser
    num_call,               \* call made to the diffuser by the latest async_set_value
    num_asked,              \* the entity and the value of the latest async_set_value
    geo_in,                 \* geometry handed to the distance calculators
    geo_out                 \* distances computed for geo_in, per calculator

vars == <<platform, radius_in_km, attributes_definition, filters_definition,
          include_in_summary, feed, available_entries, keep_entries,
          feed_entries, fired, raised, rss_radius, rss_feed, rss_incidents,
          rss_state, rss_raised, rss_tasks, rss_waiting, json_radius, json_value,
          json_incidents, json_state, json_raised, json_tasks, fr_status,
          fr_managed, fr_sent, fr_pending, fr_entities, fr_on_delete,
          fr_on_update, managers, storage_data,
          last_manager, feed_categories, discovered, devices, platform_raised,
          bs_category, bs_sort_by, bs_reverse, bs_manager, bs_sorted, bs_state,
          bs_attributes, bs_raised, num_speed, num_room, num_call, num_asked,
          geo_in,
          geo_out>>

georss_vars == <<platform, radius_in_km, attributes_definition, filters_definition,
                 include_in_summary, feed, available_entries, keep_entries,
                 feed_entries, fired, raised>>

rss_vars == <<rss_radius, rss_feed, rss_incidents, rss_state, rss_raised,
              rss_tasks, rss_waiting>>

json_vars == <<json_radius, json_value, json_incidents, json_state, json_raised,
               json_tasks>>

geo_vars == <<geo_in, geo_out>>

fr_vars == <<fr_status, fr_managed, fr_sent, fr_pending, fr_entities,
             fr_on_delete, fr_on_update>>

setup_vars == <<managers, storage_data, last_manager, feed_categories,
                discovered, devices, platform_raised>>

bs_vars == <<bs_category, bs_sort_by, bs_reverse, bs_manager, bs_sorted,
             bs_state, bs_attributes, bs_raised>>

num_vars == <<num_speed, num_room, num_call, num_asked>>

(***************************************************************************)
(* Bounds of the model.                                                    *)
(***************************************************************************)
MaxEntries == 2     \* entries of one feed
MaxLen == 2         \* characters of an attribute value
MaxDepth == 2       \* nesting depth of geometry collections
MaxRing == 3        \* vertices of a polygon ring
MaxWaiting == 2     \* update cycles suspended at the same time

(***************************************************************************)
(* Generic helpers.                                                        *)
(***************************************************************************)
Range(s) == {s[i] : i \in 1..Len(s)}

SeqsUpTo(S, n) == UNION {[1..k -> S] : k \in 0..n}

RECURSIVE SumSeq(_)
SumSeq(s) == IF s = <<>> THEN 0 ELSE Head(s) + SumSeq(Tail(s))

MinNum(a, b) == IF a <= b THEN a ELSE b

(***************************************************************************)
(* Python's re module on the modelled regular expressions.                 *)
(***************************************************************************)
Alphabet == {"a", "7"}

Strings == SeqsUpTo(Alphabet, MaxLen)

Atom(cls, rep, grp) == [cls |-> cls, rep |-> rep, grp |-> grp]

\* what a failed re.match / re.search returns (None)
NoMatch == [start |-> 0, lens |-> <<>>]

\* number of leading characters of s, from position i on, that lie in cls
RECURSIVE RunLen(_, _, _)
RunLen(cls, s, i) ==
    IF i > Len(s) \/ s[i] \notin cls THEN 0 ELSE 1 + RunLen(cls, s, i + 1)

\* the backtracking matcher: atoms k.. of p against s from position i on;
\* the lengths the atoms consume in the first successful alternative
\* (greedy repetitions give back one character at a time), or <<-1>>
RECURSIVE MatchFrom(_, _, _, _), TryRep(_, _, _, _, _, _)
MatchFrom(p, k, s, i) ==
    IF k > Len(p) THEN <<>>
    ELSE LET run == RunLen(p[k].cls, s, i)
             lo  == IF p[k].rep = "*" THEN 0 ELSE 1
             hi  == IF p[k].rep = "1" THEN MinNum(run, 1) ELSE run
         IN  TryRep(p, k, s, i, hi, lo)

TryRep(p, k, s, i, n, lo) ==
    IF n < lo THEN <<-1>>
    ELSE LET rest == MatchFrom(p, k + 1, s, i + n)
         IN  IF rest # <<-1>> THEN <<n>> \o rest
             ELSE TryRep(p, k, s, i, n - 1, lo)

\* re.match in the place of re.search: only at the beginning of the string
re_search_anchored(p, s) ==
    LET lens == MatchFrom(p, 1, s, 1)
    IN  IF lens = <<-1>> THEN [start |-> 0, lens |-> <<>>]
        ELSE [start |-> 1, lens |-> lens]

\* re.search(regexp, string): the leftmost position where the regexp matches
RECURSIVE SearchFrom(_, _, _)
SearchFrom(p, s, i) ==
    IF i > Len(s) + 1 THEN NoMatch
    ELSE LET lens == MatchFrom(p, 1, s, i)
         IN  IF lens # <<-1>> THEN [start |-> i, lens |-> lens]
             ELSE SearchFrom(p, s, i + 1)

re_search(p, s) == SearchFrom(p, s, 1)

\* re.search in the place of re.match: the filter would match anywhere
re_match_anywhere(p, s) == re_search(p, s)

\* re.match(regexp, string): only at the beginning of the string
re_match(p, s) ==
    LET lens == MatchFrom(p, 1, s, 1)
    IN  IF lens = <<-1>> THEN NoMatch ELSE [start |-> 1, lens |-> lens]

\* match.group('custom_attribute'): the text the atoms of the group consumed
match_group(m, p, s) ==
    LET first == CHOOSE k \in 1..Len(p) : p[k].grp /\ \A j \in 1..k - 1 : ~p[j].grp
        skip  == SumSeq([k \in 1..Len(p) |-> IF k < first THEN m.lens[k] ELSE 0])
        take  == SumSeq([k \in 1..Len(p) |-> IF p[k].grp THEN m.lens[k] ELSE 0])
    IN  SubSeq(s, m.start + skip, m.start + skip + take - 1)

(***************************************************************************)
(* Geometries and distances.                                               *)
(***************************************************************************)
Inf == 1000000      \* float("inf"): above every distance and radius of the grid

Coords == 0..2

GridPoints == {<<x, y>> : x \in Coords, y \in Coords}

\* a geometry as the feed parsers deliver it; "coordinates" of a Point is
\* (lon, lat), "ring" stands for coordinates[0] of a Polygon
Geometry(type, coordinates, ring, geometries) ==
    [type |-> type, coordinates |-> coordinates, ring |-> ring,
     geometries |-> geometries]

PointGeometry(c) == Geometry("Point", c, <<>>, <<>>)
PolygonGeometry(r) == Geometry("Polygon", <<>>, r, <<>>)
CollectionGeometry(gs) == Geometry("GeometryCollection", <<>>, <<>>, gs)
LineStringGeometry == Geometry("LineString", <<>>, <<>>, <<>>)

\* haversine(a, b) of the haversine library, on the grid
haversine(a, b) ==
    (a[1] - b[1]) * (a[1] - b[1]) + (a[2] - b[2]) * (a[2] - b[2])

\* hass.config.latitude, hass.config.longitude
home_latitude == 1
home_longitude == 1

\* GeoDistanceHelper._home_coordinates, (lat, lon)
home_coordinates == <<home_latitude, home_longitude>>

_distance_to_coords(coordinates) == haversine(coordinates, home_coordinates)

_distance_to_point(point) ==
    _distance_to_coords(<<point.coordinates[2], point.coordinates[1]>>)

RECURSIVE PolygonLoop(_, _, _)
PolygonLoop(polygon, i, distance) ==
    IF i > Len(polygon) THEN distance
    ELSE PolygonLoop(polygon, i + 1,
             MinNum(distance, _distance_to_coords(<<polygon[i][2], polygon[i][1]>>)))

_distance_to_polygon(polygon) == PolygonLoop(polygon, 1, Inf)

\* a default of 0 in the place of float("inf") for the other kinds
distance_to_geometry_default_zero(geometry) ==
    IF geometry.type = "Point" THEN _distance_to_point(geometry)
    ELSE IF geometry.type = "Polygon" THEN _distance_to_polygon(geometry.ring)
    ELSE 0

distance_to_geometry(geometry) ==
    IF geometry.type = "Point" THEN _distance_to_point(geometry)
    ELSE IF geometry.type = "Polygon" THEN _distance_to_polygon(geometry.ring)
    ELSE Inf

(***************************************************************************)
(* GeoRssFeedManager: one update cycle.                                    *)
(***************************************************************************)
ATTR_CATEGORY == "category"
ATTR_TITLE == "title"

NoWhere == Geometry("", <<>>, <<>>, <<>>)   \* the entry has no 'where'
NoGeometry == Geometry("None", <<>>, <<>>, <<>>)   \* geometry = None
NoValue == 0 - 1                            \* the entry has no such number

\* a feed entry: attrs holds the string-valued keys the entry carries
Entry(obj, attrs, where, geo_lat, geo_long) ==
    [obj |-> obj, attrs |-> attrs, where |-> where, geo_lat |-> geo_lat,
     geo_long |-> geo_long, distance |-> NoValue]

hasattr(entry, name) == name \in DOMAIN entry.attrs

\* entry.update({name: value})
entry_update(entry, name, value) ==
    [entry EXCEPT !.attrs = [k \in DOMAIN entry.attrs \cup {name} |->
                                IF k = name THEN value ELSE entry.attrs[k]]]

\* lines 185-191: the geometry of an entry
entry_geometry(entry) ==
    IF entry.where # NoWhere THEN entry.where
    ELSE IF entry.geo_lat # NoValue /\ entry.geo_long # NoValue
         THEN PointGeometry(<<entry.geo_long, entry.geo_lat>>)
         ELSE NoGeometry

\* a strict comparison in the place of <=
within_radius_strict(distance, radius) == distance < radius

\* line 195: the distance test
within_radius(distance, radius) == distance <= radius

\* lines 200-215: one attribute definition applied to an entry
apply_attribute(entry, definition) ==
    IF hasattr(entry, definition.source)
    THEN LET match == re_search(definition.regexp, entry.attrs[definition.source])
         IN  entry_update(entry, definition.name,
                 IF match = NoMatch THEN <<>>
                 ELSE match_group(match, definition.regexp,
                                  entry.attrs[definition.source]))
    ELSE entry_update(entry, definition.name, <<>>)

\* the loop over the attribute definitions ending at the first definition
\* whose source the entry lacks
RECURSIVE compute_attributes_until_missing(_, _, _)
compute_attributes_until_missing(entry, definitions, k) ==
    IF k > Len(definitions) THEN entry
    ELSE IF ~hasattr(entry, definitions[k].source)
         THEN entry_update(entry, definitions[k].name, <<>>)
    ELSE compute_attributes_until_missing(apply_attribute(entry, definitions[k]),
                                          definitions, k + 1)

\* lines 199-215: the attribute definitions in configured order
RECURSIVE compute_attributes(_, _, _)
compute_attributes(entry, definitions, k) ==
    IF k > Len(definitions) THEN entry
    ELSE compute_attributes(apply_attribute(entry, definitions[k]), definitions, k + 1)

\* lines 220-225: does the filter definition eliminate the entry
filter_rejects(entry, definition) ==
    /\ hasattr(entry, definition.attribute)
    /\ re_match(definition.regexp, entry.attrs[definition.attribute]) = NoMatch

\* the filter loop without its break: the last definition that applies
\* decides alone
RECURSIVE run_filters_last_decides(_, _, _)
run_filters_last_decides(entry, definitions, k) ==
    IF k > Len(definitions) THEN TRUE
    ELSE IF k = Len(definitions) THEN ~filter_rejects(entry, definitions[k])
    ELSE run_filters_last_decides(entry, definitions, k + 1)

\* lines 217-233: keep_entry after the filter loop (the loop breaks at the
\* first definition that eliminates the entry)
RECURSIVE run_filters(_, _, _)
run_filters(entry, definitions, k) ==
    IF k > Len(definitions) THEN TRUE
    ELSE IF filter_rejects(entry, definitions[k]) THEN FALSE
    ELSE run_filters(entry, definitions, k + 1)

\* lines 185-235 for one entry: the entry object after the loop body, and
\* whether it was appended to keep_entries
process_entry(entry, radius, attributes, filters) ==
    LET geometry == entry_geometry(entry)
        distance == distance_to_geometry(geometry)
    IN  IF geometry # NoGeometry /\ within_radius(distance, radius)
        THEN LET annotated == compute_attributes(
                                  [entry EXCEPT !.distance = distance], attributes, 1)
             IN  [entry |-> annotated, keep |-> run_filters(annotated, filters, 1)]
        ELSE [entry |-> entry, keep |-> FALSE]

\* kept entries inserted at the front of keep_entries instead of appended
RECURSIVE SelectKeptReversed(_)
SelectKeptReversed(s) ==
    IF s = <<>> THEN <<>>
    ELSE SelectKeptReversed(Tail(s)) \o (IF Head(s).keep THEN <<Head(s).entry>> ELSE <<>>)

\* the elements of s that satisfy keep, in the order of s
RECURSIVE SelectKept(_)
SelectKept(s) ==
    IF s = <<>> THEN <<>>
    ELSE (IF Head(s).keep THEN <<Head(s).entry>> ELSE <<>>) \o SelectKept(Tail(s))

\* lines 246-254: does building the summary of these entries raise KeyError
summary_raises(entries, include) ==
    \E i \in 1..Len(entries) :
        \/ ~hasattr(entries[i], ATTR_TITLE)
        \/ ~hasattr(entries[i], ATTR_CATEGORY)
        \/ \E j \in 1..Len(include) : ~hasattr(entries[i], include[j])

\* lines 247-254: the details of one entry in the summary
entry_details(entry, include) ==
    [title |-> entry.attrs[ATTR_TITLE],
     distance |-> entry.distance, category |-> entry.attrs[ATTR_CATEGORY],
     extra |-> [j \in 1..Len(include) |-> entry.attrs[include[j]]]]

\* lines 243-258: the payload of the summary event
summary_payload(entries, include) ==
    [entries |-> [i \in 1..Len(entries) |-> entry_details(entries[i], include)]]

\* _filter_entries (lines 180-241) on the entries just parsed
FilterEntries(parsed) ==
    LET results == [i \in 1..Len(parsed) |->
                       process_entry(parsed[i], radius_in_km,
                                     attributes_definition, filters_definition)]
        kept == SelectKept(results)
        processed == [i \in 1..Len(parsed) |-> results[i].entry]
    IN  /\ feed' = parsed
        /\ available_entries' = processed
        /\ keep_entries' = kept
        /\ IF summary_raises(kept, include_in_summary)
           THEN /\ raised' = "KeyError"
                /\ fired' = <<>>
                /\ feed_entries' = processed
           ELSE /\ raised' = "none"
                /\ fired' = <<summary_payload(kept, include_in_summary)>>
                /\ feed_entries' = kept
        /\ UNCHANGED <<radius_in_km, attributes_definition, filters_definition,
                       include_in_summary>>

(***************************************************************************)
(* NswRuralFireServiceUpdater of the RSS sensor: distances.                 *)
(***************************************************************************)
\* NswRuralFireServiceUpdater._home_coordinates, (lon, lat)
rss_home_coordinates == <<home_longitude, home_latitude>>

IndexError == 0 - 2     \* the calculation raised IndexError

rss_calculate_distance_to_point(point) ==
    haversine(point.coordinates, rss_home_coordinates)

\* lines 290-300: the point lies strictly between the ends of a horizontal
\* edge; the pair of step i is (polygon[0], polygon[1]) for i = 0 and
\* (polygon[i - 1], polygon[i]) otherwise (the model counts from 1)
on_boundary_at(point, polygon, i) ==
    LET p1 == IF i = 1 THEN polygon[1] ELSE polygon[i - 1]
        p2 == IF i = 1 THEN polygon[2] ELSE polygon[i]
    IN  /\ p1[2] = p2[2]
        /\ p1[2] = point[2]
        /\ point[1] > MinNum(p1[1], p2[1])
        /\ point[1] < (IF p1[1] >= p2[1] THEN p1[1] ELSE p2[1])

\* lines 308-314: does the edge from p1 to p2 toggle "inside"; the quotient
\* of line 312 is compared by cross-multiplication
edge_toggles(point, p1, p2) ==
    LET x == point[1]
        y == point[2]
        maxy == IF p1[2] >= p2[2] THEN p1[2] ELSE p2[2]
        maxx == IF p1[1] >= p2[1] THEN p1[1] ELSE p2[1]
        num == (y - p1[2]) * (p2[1] - p1[1])
        den == p2[2] - p1[2]
    IN  /\ y > MinNum(p1[2], p2[2])
        /\ y <= maxy
        /\ x <= maxx
        /\ \/ p1[1] = p2[1]
           \/ IF den > 0 THEN (x - p1[1]) * den <= num
                         ELSE (x - p1[1]) * den >= num

\* lines 305-315: the loop over i in range(n + 1), from step i on
RECURSIVE crossing_loop(_, _, _, _, _)
crossing_loop(point, polygon, i, p1, inside) ==
    IF i > Len(polygon) THEN inside
    ELSE LET p2 == polygon[(i % Len(polygon)) + 1]
         IN  crossing_loop(point, polygon, i + 1, p2,
                 IF edge_toggles(point, p1, p2) THEN ~inside ELSE inside)

\* point_in_polygon (lines 280-317): "True", "False" or "IndexError"
point_in_polygon(point, polygon) ==
    IF point \in Range(polygon) THEN "True"
    ELSE IF Len(polygon) < 2 THEN "IndexError"
    ELSE IF \E i \in 1..Len(polygon) : on_boundary_at(point, polygon, i) THEN "True"
    ELSE IF crossing_loop(point, polygon, 0, polygon[1], FALSE) THEN "True"
    ELSE "False"

RECURSIVE RssPolygonLoop(_, _, _)
RssPolygonLoop(polygon, i, distance) ==
    IF i > Len(polygon) THEN distance
    ELSE RssPolygonLoop(polygon, i + 1,
             MinNum(distance, haversine(polygon[i], rss_home_coordinates)))

\* calculate_distance_to_polygon (lines 263-278)
rss_calculate_distance_to_polygon(polygon) ==
    LET within == point_in_polygon(rss_home_coordinates, polygon)
    IN  IF within = "IndexError" THEN IndexError
        ELSE IF within = "True" THEN 0
        ELSE RssPolygonLoop(polygon, 1, Inf)

\* calculate_distance_to_geometry (lines 244-252)
rss_calculate_distance_to_geometry(geometry) ==
    IF geometry.type = "Point" THEN rss_calculate_distance_to_point(geometry)
    ELSE IF geometry.type = "Polygon"
         THEN rss_calculate_distance_to_polygon(geometry.ring)
    ELSE Inf

(***************************************************************************)
(* NswRuralFireServiceUpdater of the GeoJSON sensor: distances.             *)
(***************************************************************************)
RECURSIVE json_calculate_distance_to_geometry(_),
          json_calculate_distance_to_geometry_collection(_, _, _)
\* calculate_distance_to_geometry (lines 240-251)
json_calculate_distance_to_geometry(geometry) ==
    IF geometry.type = "Point"
    THEN haversine(geometry.coordinates, rss_home_coordinates)
    ELSE IF geometry.type = "GeometryCollection"
         THEN json_calculate_distance_to_geometry_collection(geometry.geometries, 1, Inf)
    ELSE Inf

\* only the first geometry of the collection is looked at
json_collection_first_only(geometries, i, distance) ==
    IF i > Len(geometries) \/ i > 1 THEN distance
    ELSE MinNum(distance, json_calculate_distance_to_geometry(geometries[i]))

\* calculate_distance_to_geometry_collection (lines 262-268), from the
\* i-th geometry on
json_calculate_distance_to_geometry_collection(geometries, i, distance) ==
    IF i > Len(geometries) THEN distance
    ELSE json_calculate_distance_to_geometry_collection(geometries, i + 1,
             MinNum(distance, json_calculate_distance_to_geometry(geometries[i])))

\* line 176 of the GeoJSON sensor's async_update: the distance test
json_within_radius(distance, radius) == distance <= radius

(***************************************************************************)
(* NswRuralFireServiceUpdater of the RSS sensor: one update cycle.          *)
(***************************************************************************)
ALERT_LEVELS == {"Emergency Warning", "Watch and Act", "Advice", "Information"}

\* an entry of the RSS feed; alert_level is the text of the ALERT LEVEL item
\* of its summary
RssEntry(obj, where, alert_level) ==
    [obj |-> obj, where |-> where, alert_level |-> alert_level]

\* create_incident (lines 203-242)
create_incident(distance, entry) ==
    [obj |-> entry.obj, distance |-> distance,
     alert_level |-> IF entry.alert_level = "Not Applicable" THEN "Information"
                     ELSE entry.alert_level]

\* line 180: the distance test
rss_within_radius(distance, radius) == distance <= radius

\* lines 176-183: the incidents of the entries from the i-th on
RECURSIVE collect_incidents(_, _, _)
collect_incidents(entries, i, radius) ==
    IF i > Len(entries) THEN <<>>
    ELSE LET distance == rss_calculate_distance_to_geometry(entries[i].where)
         IN  (IF rss_within_radius(distance, radius)
              THEN <<create_incident(distance, entries[i])>> ELSE <<>>)
             \o collect_incidents(entries, i + 1, radius)

\* lines 185-190: the incidents of one alert level, in order
RECURSIVE incidents_of(_, _)
incidents_of(incidents, alert_level) ==
    IF incidents = <<>> THEN <<>>
    ELSE (IF Head(incidents).alert_level = alert_level THEN <<Head(incidents)>>
          ELSE <<>>) \o incidents_of(Tail(incidents), alert_level)

\* async_update (lines 165-201) on the entries just parsed, up to the point
\* where it waits for the state updates (line 201).  entry.where of an entry
\* without 'where' raises AttributeError in the loop; an alert level without
\* device raises KeyError at line 196, after the devices of the levels that
\* the dictionary happened to yield before it have been set and before any
\* state update is awaited
RssAsyncUpdate(parsed) ==
    LET missing == {i \in 1..Len(parsed) : parsed[i].where = NoWhere}
        first == CHOOSE i \in missing : \A j \in missing : i <= j
        incidents == collect_incidents(parsed, 1, rss_radius)
        levels == {incidents[i].alert_level : i \in 1..Len(incidents)}
    IN  /\ rss_feed' = parsed
        /\ IF missing # {}
           THEN /\ rss_raised' = "AttributeError"
                /\ rss_incidents' =
                       collect_incidents(SubSeq(parsed, 1, first - 1), 1, rss_radius)
                /\ rss_state' = rss_state
                /\ rss_tasks' = {}
                /\ rss_waiting' = rss_waiting
           ELSE /\ rss_incidents' = incidents
                /\ IF levels \subseteq ALERT_LEVELS
                   THEN /\ rss_raised' = "none"
                        /\ rss_state' = [l \in ALERT_LEVELS |->
                               IF l \in levels THEN incidents_of(incidents, l)
                               ELSE rss_state[l]]
                        /\ rss_tasks' = levels
                        /\ rss_waiting' = IF levels # {} THEN rss_waiting + 1
                                          ELSE rss_waiting
                   ELSE /\ rss_raised' = "KeyError"
                        /\ \E done \in SUBSET (levels \cap ALERT_LEVELS) :
                               rss_state' = [l \in ALERT_LEVELS |->
                                   IF l \in done THEN incidents_of(incidents, l)
                                   ELSE rss_state[l]]
                        /\ rss_tasks' = {}
                        /\ rss_waiting' = rss_waiting
        /\ UNCHANGED rss_radius

(***************************************************************************)
(* NswRuralFireServiceUpdater of the GeoJSON sensor: one update cycle.      *)
(***************************************************************************)
\* self._rest.data: None, or the text of a feature collection
NoData == [retrieved |-> FALSE, features |-> <<>>]

Retrieved(features) == [retrieved |-> TRUE, features |-> features]

\* a feature of the GeoJSON feed; alert_level is the text of the ALERT LEVEL
\* item of its description, "None" when the description has no such item
JsonFeature(obj, geometry, alert_level) ==
    [obj |-> obj, where |-> geometry, alert_level |-> alert_level]

\* create_incident (lines 200-238)
json_create_incident(distance, feature) ==
    [obj |-> feature.obj, distance |-> distance,
     alert_level |-> IF feature.alert_level = "Not Applicable" THEN "Information"
                     ELSE feature.alert_level]

\* lines 171-179: the incidents of the features from the i-th on
RECURSIVE json_collect_incidents(_, _, _)
json_collect_incidents(features, i, radius) ==
    IF i > Len(features) THEN <<>>
    ELSE LET distance == json_calculate_distance_to_geometry(features[i].where)
         IN  (IF json_within_radius(distance, radius)
              THEN <<json_create_incident(distance, features[i])>> ELSE <<>>)
             \o json_collect_incidents(features, i + 1, radius)

\* lines 166-167 with the no-data branch resetting every sensor
JsonNoDataResets ==
    /\ json_raised' = "none"
    /\ json_incidents' = <<>>
    /\ json_state' = [l \in ALERT_LEVELS |-> <<>>]
    /\ json_tasks' = ALERT_LEVELS

\* lines 166-167: no data was retrieved, a warning is logged
JsonNoData ==
    /\ json_raised' = "none"
    /\ json_incidents' = <<>>
    /\ json_state' = json_state
    /\ json_tasks' = {}

\* lines 168-198: the features are filtered, the incidents grouped and the
\* devices of the levels found are set; an alert level without device raises
\* KeyError at line 193, after the devices of the levels that the
\* dictionary happened to yield before it have been set
JsonProcess(features) ==
    LET incidents == json_collect_incidents(features, 1, json_radius)
        levels == {incidents[i].alert_level : i \in 1..Len(incidents)}
    IN  /\ json_incidents' = incidents
        /\ IF levels \subseteq ALERT_LEVELS
           THEN /\ json_raised' = "none"
                /\ json_state' = [l \in ALERT_LEVELS |->
                       IF l \in levels THEN incidents_of(incidents, l)
                       ELSE json_state[l]]
                /\ json_tasks' = levels
           ELSE /\ json_raised' = "KeyError"
                /\ \E done \in SUBSET (levels \cap ALERT_LEVELS) :
                       json_state' = [l \in ALERT_LEVELS |->
                           IF l \in done THEN incidents_of(incidents, l)
                           ELSE json_state[l]]
                /\ json_tasks' = {}

\* async_update (lines 159-198) on the data just retrieved
JsonAsyncUpdate(value) ==
    /\ json_value' = value
    /\ IF ~value.retrieved THEN JsonNoData ELSE JsonProcess(value.features)
    /\ UNCHANGED json_radius

(***************************************************************************)
(* Flightradar24FlightsFeedEntityManager (flightradar24_local_feed.py).     *)
(* The feed manager of the flightradar24_client library that calls the     *)
(* three callbacks is not part of the sources; its comparison of the       *)
(* current with the previous external ids follows the FeedLifecycleTracker *)
(* of the specification.                                                   *)
(***************************************************************************)
MaxFlights == 3     \* external ids a flights feed can hold

FlightIds == 1..MaxFlights

SIGNAL_DELETE_ENTITY == "flightradar24_local_feed_delete_{}"
SIGNAL_UPDATE_ENTITY == "flightradar24_local_feed_update_{}"
ADD_ENTITIES == "async_add_entities"

\* the ids of a set in ascending order
RECURSIVE SetToSeq(_)
SetToSeq(S) ==
    IF S = {} THEN <<>>
    ELSE LET m == CHOOSE x \in S : \A y \in S : x <= y
         IN  <<m>> \o SetToSeq(S \ {m})

\* FeedLifecycleTracker.diff
diff(current_ids, previous_ids) ==
    [created |-> current_ids \ previous_ids,
     updated |-> current_ids \cap previous_ids,
     deleted |-> previous_ids \ current_ids]

\* _generate_entity (lines 126-130): a new entity is handed to hass
_generate_entity(external_id) ==
    [signal |-> ADD_ENTITIES, external_id |-> external_id]

\* the update callback sending the delete signal
_update_entity_sends_delete(external_id) ==
    [signal |-> SIGNAL_DELETE_ENTITY, external_id |-> external_id]

\* _update_entity (lines 132-135)
_update_entity(external_id) ==
    [signal |-> SIGNAL_UPDATE_ENTITY, external_id |-> external_id]

\* the remove callback sending the update signal
_remove_entity_sends_update(external_id) ==
    [signal |-> SIGNAL_UPDATE_ENTITY, external_id |-> external_id]

\* _remove_entity (lines 137-140)
_remove_entity(external_id) ==
    [signal |-> SIGNAL_DELETE_ENTITY, external_id |-> external_id]

\* the ids that a sequence of callback results names with one signal
SentIds(sent, signal) ==
    {sent[k].external_id : k \in {j \in 1..Len(sent) : sent[j].signal = signal}}

\* the entity of an id once async_added_to_hass (lines 163-169) has run
Flightradar24Flight(external_id) ==
    [external_id |-> external_id, signal_delete |-> TRUE,
     signal_update |-> TRUE, in_hass |-> TRUE]

\* the entity after a _delete_callback that leaves the update signal connected
_delete_callback_keeps_update(entity) ==
    [entity EXCEPT !.signal_delete = FALSE, !.in_hass = FALSE]

\* _delete_callback (lines 172-176): both signals are disconnected and the
\* entity is removed from hass
_delete_callback(entity) ==
    [entity EXCEPT !.signal_delete = FALSE, !.signal_update = FALSE,
                   !.in_hass = FALSE]

\* one update of the feed manager: the callbacks are called for the removed,
\* the updated and the new ids; an entity connected to the delete signal of
\* its id runs _delete_callback, a new entity waits to be added to hass
FeedManagerUpdate(status, current_ids) ==
    IF status = "OK"
    THEN LET d == diff(current_ids, fr_managed)
             removed == SetToSeq(d.deleted)
             updated == SetToSeq(d.updated)
             created == SetToSeq(d.created)
             sent == [k \in 1..Len(removed) |-> _remove_entity(removed[k])]
                     \o [k \in 1..Len(updated) |-> _update_entity(updated[k])]
                     \o [k \in 1..Len(created) |-> _generate_entity(created[k])]
             deleting == SentIds(sent, SIGNAL_DELETE_ENTITY) \cap fr_on_delete
             after == {_delete_callback(Flightradar24Flight(id)) : id \in deleting}
             still(field) == {e.external_id : e \in {a \in after : a[field]}}
         IN  /\ fr_status' = status
             /\ fr_managed' = current_ids
             /\ fr_sent' = sent
             /\ fr_on_delete' = (fr_on_delete \ deleting) \cup still("signal_delete")
             /\ fr_on_update' = (fr_on_update \ deleting) \cup still("signal_update")
             /\ fr_entities' = (fr_entities \ deleting) \cup still("in_hass")
             /\ fr_pending' = fr_pending \cup SentIds(sent, ADD_ENTITIES)
    ELSE /\ fr_status' = status
         /\ fr_sent' = <<>>
         /\ UNCHANGED <<fr_managed, fr_entities, fr_on_delete, fr_on_update,
                        fr_pending>>

\* async_added_to_hass (lines 163-169): the entity connects to its signals
async_added_to_hass(external_id) ==
    /\ external_id \in fr_pending
    /\ fr_pending' = fr_pending \ {external_id}
    /\ LET entity == Flightradar24Flight(external_id)
       IN  /\ fr_entities' = fr_entities \cup {id \in {external_id} : entity.in_hass}
           /\ fr_on_delete' =
                  fr_on_delete \cup {id \in {external_id} : entity.signal_delete}
           /\ fr_on_update' =
                  fr_on_update \cup {id \in {external_id} : entity.signal_update}
    /\ UNCHANGED <<fr_status, fr_managed, fr_sent>>

(***************************************************************************)
(* setup() of geo_rss_events with several configured feeds (lines 88-141). *)
(* The cycle of the FeedManager base class of the feedreader component is  *)
(* not part of the sources; that it persists the last-seen record of its   *)
(* feed at the end of a cycle follows the specification.                   *)
(***************************************************************************)
FeedNames == {"a", "b"}

\* the one StoredData object that setup() creates (lines 92-93)
StoredData == 1

\* GeoRssFeedManager.__init__ (lines 147-163): the manager keeps the storage
\* it is given and takes its feed id from its name
GeoRssFeedManager(storage, name, feed_id) ==
    [storage |-> storage, name |-> name, feed_id |-> feed_id]

\* the entity ids generate_entity_id can give a name: the name itself, or
\* the name made unique when the id is taken
EntityIds(name) == {name, name \o "_2"}

\* FeedManager._update: the manager's cycle ends with its last-seen record
\* stored under its feed id
ManagerCycle(m, record) ==
    /\ storage_data' = [storage_data EXCEPT
                            ![managers[m].storage][managers[m].feed_id] = record]
    /\ last_manager' = m
    /\ UNCHANGED <<managers, feed_categories, discovered, devices, platform_raised>>

(***************************************************************************)
(* GeoRssEventBinarySensor (binary_sensor/geo_rss_events.py).               *)
(***************************************************************************)
ATTR_DISTANCE == "distance"
DEFAULT_SORT_ENTRIES_BY == "None"
DEFAULT_SORT_ENTRIES_REVERSE == FALSE

PyNone == <<"None">>        \* the value None of an entry's key
NoCategory == <<>>          \* category=None of __init__ (and '', equally false)

\* `name in entry` / hasattr(entry, name): distance is the key that
\* _filter_entries adds to the entry
entry_has(entry, name) ==
    IF name = ATTR_DISTANCE THEN entry.distance # NoValue
    ELSE hasattr(entry, name)

\* the code points of the characters of the alphabet
Ord(c) == IF c = "7" THEN 55 ELSE 97

\* str.__lt__
RECURSIVE str_lt(_, _)
str_lt(a, b) ==
    IF b = <<>> THEN FALSE
    ELSE IF a = <<>> THEN TRUE
    ELSE IF Ord(Head(a)) # Ord(Head(b)) THEN Ord(Head(a)) < Ord(Head(b))
    ELSE str_lt(Tail(a), Tail(b))

\* the one MinType object of an update (line 105)
MinType == [type |-> "MinType", num |-> 0, str |-> <<>>]

\* the sort key of lines 107-110
sort_key(my_entry, sort_entries_by) ==
    IF ~entry_has(my_entry, sort_entries_by) THEN MinType
    ELSE IF sort_entries_by = ATTR_DISTANCE
         THEN [type |-> "float", num |-> my_entry.distance, str |-> <<>>]
    ELSE IF my_entry.attrs[sort_entries_by] = PyNone THEN MinType
    ELSE [type |-> "str", num |-> 0, str |-> my_entry.attrs[sort_entries_by]]

\* a MinType that is not below anything
MinType__le__never(other) == FALSE

\* MinType.__le__ (lines 139-141)
MinType__le__(other) == TRUE

\* MinType.__eq__ (lines 143-145): self is other
MinType__eq__(other) == other.type = "MinType"

\* what total_ordering (line 135) derives from __le__ and __eq__
MinType__lt__(other) == MinType__le__(other) /\ ~MinType__eq__(other)
MinType__gt__(other) == ~MinType__le__(other)

\* a < b as sorted() evaluates it: a value that cannot compare itself with
\* the MinType object leaves the answer to the object's reflected method
key_lt(a, b) ==
    IF a.type = "MinType" THEN MinType__lt__(b)
    ELSE IF b.type = "MinType" THEN MinType__gt__(a)
    ELSE IF a.type = "float" THEN a.num < b.num
    ELSE str_lt(a.str, b.str)

\* the place of one more entry in a sorted list: behind every entry that
\* does not have to come after it
insert_sorted(s, x, sort_entries_by, reverse) ==
    LET after(y) == IF reverse
                    THEN key_lt(sort_key(y, sort_entries_by),
                                sort_key(x, sort_entries_by))
                    ELSE key_lt(sort_key(x, sort_entries_by),
                                sort_key(y, sort_entries_by))
        later == {k \in 1..Len(s) : after(s[k])}
        at == IF later = {} THEN Len(s) + 1
              ELSE CHOOSE k \in later : \A j \in later : k <= j
    IN  SubSeq(s, 1, at - 1) \o <<x>> \o SubSeq(s, at, Len(s))

\* sorted(entries, key=..., reverse=...) with every pair of equal keys
\* turned around
RECURSIVE sorted_by_reversal(_, _, _)
sorted_by_reversal(entries, sort_entries_by, reverse) ==
    IF entries = <<>> THEN <<>>
    ELSE LET n == Len(entries)
             rest == sorted_by_reversal(SubSeq(entries, 1, n - 1),
                                        sort_entries_by, FALSE)
             up == insert_sorted(rest, entries[n], sort_entries_by, FALSE)
         IN  IF reverse THEN [k \in 1..n |-> up[n + 1 - k]] ELSE up

\* sorted(entries, key=..., reverse=...) (lines 106-111): a stable sort,
\* also when reversed
RECURSIVE sorted(_, _, _)
sorted(entries, sort_entries_by, reverse) ==
    IF entries = <<>> THEN <<>>
    ELSE LET n == Len(entries)
         IN  insert_sorted(sorted(SubSeq(entries, 1, n - 1), sort_entries_by,
                                  reverse),
                           entries[n], sort_entries_by, reverse)

\* lines 86-88: the entries of the sensor's category
category_filter(entries, category) ==
    IF category # NoCategory
    THEN SelectSeq(entries, LAMBDA entry : entry.attrs[ATTR_CATEGORY] = category)
    ELSE entries

\* lines 117-119: the text shown for an entry
distance_text(entry) ==
    IF ~entry_has(entry, ATTR_DISTANCE)
    THEN [text |-> "unknown", km |-> NoValue]
    ELSE [text |-> "{:.0f}km", km |-> entry.distance]

\* lines 115-119: the dict matrix in insertion order; a title that is
\* already a key keeps its place and takes the new text
RECURSIVE matrix(_, _)
matrix(entries, n) ==
    IF n = 0 THEN <<>>
    ELSE LET m == matrix(entries, n - 1)
             title == entries[n].attrs[ATTR_TITLE]
             item == [title |-> title, value |-> distance_text(entries[n])]
             same == {k \in 1..Len(m) : m[k].title = title}
         IN  IF same = {} THEN Append(m, item)
             ELSE [k \in 1..Len(m) |-> IF k \in same THEN item ELSE m[k]]

\* GeoRssEventBinarySensor.update (lines 81-123)
update(manager_feed_entries) ==
    /\ bs_manager' = manager_feed_entries
    /\ IF /\ bs_category # NoCategory
          /\ \E k \in 1..Len(manager_feed_entries) :
                 ~hasattr(manager_feed_entries[k], ATTR_CATEGORY)
       THEN \* entry[ATTR_CATEGORY] (line 88)
            /\ bs_raised' = "KeyError"
            /\ bs_sorted' = <<>>
            /\ UNCHANGED <<bs_state, bs_attributes>>
       ELSE LET filtered == category_filter(manager_feed_entries, bs_category)
                entries == IF bs_sort_by # DEFAULT_SORT_ENTRIES_BY
                           THEN sorted(filtered, bs_sort_by, bs_reverse)
                           ELSE filtered
            IN  /\ bs_sorted' = entries
                /\ IF \E k \in 1..Len(entries) : ~hasattr(entries[k], ATTR_TITLE)
                   THEN \* entry[ATTR_TITLE] (line 117)
                        /\ bs_raised' = "KeyError"
                        /\ UNCHANGED <<bs_state, bs_attributes>>
                   ELSE /\ bs_raised' = "none"
                        /\ bs_attributes' = matrix(entries, Len(entries))
                        /\ bs_state' = (Len(entries) # 0)
    /\ UNCHANGED <<bs_category, bs_sort_by, bs_reverse>>

(***************************************************************************)
(* Loading the binary sensors: setup() of the component (geo_rss_events.py, *)
(* lines 120-141) and setup_platform of the sensor platform                 *)
(* (binary_sensor/geo_rss_events.py, lines 33-50).                          *)
(***************************************************************************)
DOMAIN_GEO_RSS_EVENTS == "geo_rss_events"

\* the names that geo_rss_events.py defines for its importers (lines 30-55)
ComponentNames ==
    {"ATTR_CATEGORY", "ATTR_DISTANCE", "ATTR_ENTRIES", "ATTR_FEED_URL",
     "ATTR_NAME", "ATTR_TITLE", "CONF_CATEGORIES", "CONF_SENSOR_CATEGORY",
     "CONF_SENSOR_EVENT_TYPE", "CONF_SENSOR_NAME", "DEFAULT_NAME", "DOMAIN"}

\* the names that the sensor platform imports from the component
\* (binary_sensor/geo_rss_events.py, lines 18-19)
BinarySensorImports ==
    {"ATTR_CATEGORY", "ATTR_DISTANCE", "ATTR_TITLE", "ATTR_CATEGORIES",
     "ATTR_MANAGER"}

\* the category lists a feed can be configured with
CategoryLists == {<<>>, <<"x">>, <<"x", "y">>}

\* '{} {}'.format(manager.name, category)
sensor_name(name, category) == name \o " " \o category

\* the load_platform calls that setup() makes for one feed (lines 121-140)
discovery_of(manager, categories) ==
    IF categories # <<>>
    THEN [k \in 1..Len(categories) |->
             [name |-> sensor_name(manager.name, categories[k]),
              event_type |-> manager.feed_id \o "_summary",
              category |-> categories[k]]]
    ELSE <<[name |-> manager.name,
            event_type |-> manager.feed_id \o "_summary",
            category |-> ""]>>

\* hass.data when setup() has returned: setup() stores nothing in it
hass_data_after_setup == [key \in {} |-> <<>>]

\* GeoRssEventBinarySensor.__init__ (lines 56-64) as far as setup decides it
GeoRssEventBinarySensor(manager, name, category) ==
    [manager |-> manager, name |-> name, category |-> category]

\* the sensors of one feed (lines 39-48)
RECURSIVE devices_of(_, _)
devices_of(feeds, n) ==
    IF n = 0 THEN <<>>
    ELSE devices_of(feeds, n - 1) \o
         (IF feeds[n].categories # <<>>
          THEN [k \in 1..Len(feeds[n].categories) |->
                   GeoRssEventBinarySensor(
                       feeds[n].manager,
                       sensor_name(feeds[n].manager.name, feeds[n].categories[k]),
                       feeds[n].categories[k])]
          ELSE <<GeoRssEventBinarySensor(feeds[n].manager,
                                         feeds[n].manager.name, "")>>)

\* setup_platform (lines 33-50): discovery_info is not read
setup_platform(hass_data, discovery_info) ==
    IF DOMAIN_GEO_RSS_EVENTS \notin DOMAIN hass_data
    THEN [raised |-> "KeyError", devices |-> <<>>]
    ELSE [raised |-> "none",
          devices |-> devices_of(hass_data[DOMAIN_GEO_RSS_EVENTS],
                                 Len(hass_data[DOMAIN_GEO_RSS_EVENTS]))]

\* discovery.load_platform(hass, "binary_sensor", DOMAIN, ...): the platform
\* module is imported, then its setup_platform is called
load_platform(hass_data, discovery_info) ==
    IF ~(BinarySensorImports \subseteq ComponentNames)
    THEN [raised |-> "ImportError", devices |-> <<>>]
    ELSE setup_platform(hass_data, discovery_info)

\* hass handles the next load_platform call of setup()
LoadNextPlatform ==
    /\ discovered # <<>>
    /\ LET loaded == load_platform(hass_data_after_setup, Head(discovered))
       IN  /\ platform_raised' = loaded.raised
           /\ devices' = devices \o loaded.devices
    /\ discovered' = Tail(discovered)
    /\ UNCHANGED <<managers, storage_data, last_manager, feed_categories>>

(***************************************************************************)
(* DiffuserPerfumeAmount and DiffuserRoomSize                               *)
(* (rituals_perfume_genie/number.py).  A float is a number of halves, or    *)
(* nan, or inf.                                                             *)
(***************************************************************************)
MIN_PERFUME_AMOUNT == 1
MAX_PERFUME_AMOUNT == 3
MIN_ROOM_SIZE == 1
MAX_ROOM_SIZE == 4

MaxNumber == 5      \* the largest value asked of a number entity

Float(kind, halves) == [kind |-> kind, halves |-> halves]

\* the values a service call can hand to async_set_value
Floats ==
    {Float("finite", h) : h \in (0 - 2)..(2 * MaxNumber)}
    \cup {Float("nan", 0), Float("inf", 0)}

\* float.is_integer
is_integer(value) == value.kind = "finite" /\ value.halves % 2 = 0

\* low <= value <= high
between(low, value, high) ==
    /\ value.kind = "finite"
    /\ 2 * low <= value.halves
    /\ value.halves <= 2 * high

\* int(value) of a whole number
int(value) == value.halves \div 2

NoCall == [method |-> "none", argument |-> 0]

\* no service call yet
NotAsked == [entity |-> "none", value |-> Float("finite", 0)]

\* the range test without the test for a whole number
accepts_in_range(value, low, high) == between(low, value, high)

\* the test of lines 76 and 118
accepts(value, low, high) == is_integer(value) /\ between(low, value, high)

\* DiffuserPerfumeAmount.async_set_value (lines 74-84)
perfume_async_set_value(value) ==
    /\ num_asked' = [entity |-> "DiffuserPerfumeAmount", value |-> value]
    /\ IF accepts(value, MIN_PERFUME_AMOUNT, MAX_PERFUME_AMOUNT)
       THEN /\ num_call' = [method |-> "set_perfume_amount", argument |-> int(value)]
            /\ num_speed' = int(value)
            /\ UNCHANGED num_room
       ELSE /\ num_call' = NoCall
            /\ UNCHANGED <<num_speed, num_room>>

\* DiffuserRoomSize.async_set_value (lines 116-126)
room_async_set_value(value) ==
    /\ num_asked' = [entity |-> "DiffuserRoomSize", value |-> value]
    /\ IF accepts(value, MIN_ROOM_SIZE, MAX_ROOM_SIZE)
       THEN /\ num_call' = [method |-> "set_room_size", argument |-> int(value)]
            /\ num_room' = int(value)
            /\ UNCHANGED num_speed
       ELSE /\ num_call' = NoCall
            /\ UNCHANGED <<num_speed, num_room>>

(***************************************************************************)
(* Configurations and feeds the model draws from.                          *)
(***************************************************************************)
MaxRules == 2       \* definitions of one attribute or filter list

\* '.*', 'a' and '7'
P_any == <<Atom(Alphabet, "*", FALSE)>>
P_a == <<Atom({"a"}, "1", FALSE)>>
P_7 == <<Atom({"7"}, "1", FALSE)>>

\* '(?P<custom_attribute>7+)', 'a(?P<custom_attribute>7)' and
\* '.*(?P<custom_attribute>7)'
G_digits == <<Atom({"7"}, "+", TRUE)>>
G_after_a == <<Atom({"a"}, "1", FALSE), Atom({"7"}, "1", TRUE)>>
G_last == <<Atom(Alphabet, "*", FALSE), Atom({"7"}, "1", TRUE)>>

AttributeDefinition(name, source, regexp) ==
    [name |-> name, source |-> source, regexp |-> regexp]

FilterDefinition(attribute, regexp) == [attribute |-> attribute, regexp |-> regexp]

AttributeRules ==
    {AttributeDefinition("custom", "title", G_digits),
     AttributeDefinition("custom", "title", G_last),
     AttributeDefinition("custom2", "title", G_after_a),
     AttributeDefinition("custom2", "custom", G_digits),
     AttributeDefinition("custom", "nonexistent", G_digits)}

FilterRules ==
    {FilterDefinition("title", P_a),
     FilterDefinition("custom", P_7),
     FilterDefinition("nonexistent", P_any)}

Radii == {1, 2}

\* the string-valued keys of an entry with the given title and category;
\* Absent says that the entry lacks the key
Absent == <<"-">>

Attrs(title, category) ==
    [k \in (IF title = Absent THEN {} ELSE {"title"})
           \cup (IF category = Absent THEN {} ELSE {"category"}) |->
        IF k = "title" THEN title ELSE category]

Category1 == <<"a">>

\* the entries of the cycle model
Title_a7 == <<"a", "7">>
Title_7a == <<"7", "a">>

Located(title, category, where) == Entry(0, Attrs(title, category), where, NoValue, NoValue)

EntryContents ==
    {Located(Title_a7, Category1, PointGeometry(<<1, 2>>)),     \* at distance 1
     Entry(0, Attrs(Title_7a, Category1), NoWhere, 0, 0),       \* pair at distance 2
     Located(Absent, Category1, PointGeometry(<<1, 2>>)),       \* no title
     Located(Title_a7, Category1, NoWhere),                     \* no location
     Located(Title_a7, Category1, LineStringGeometry),          \* unsupported kind
     Entry(0, Attrs(Title_a7, Category1), NoWhere, 0, NoValue)} \* geo_lat only

\* an entry that a manager holds: with its distance and, unless Absent,
\* a title, a category and a key custom
BsEntry(title, category, custom, distance) ==
    [Entry(0, [k \in (IF title = Absent THEN {} ELSE {"title"})
                     \cup (IF category = Absent THEN {} ELSE {"category"})
                     \cup (IF custom = Absent THEN {} ELSE {"custom"}) |->
                  IF k = "title" THEN title
                  ELSE IF k = "category" THEN category ELSE custom],
           NoWhere, NoValue, NoValue)
     EXCEPT !.distance = distance]

\* the entries of the binary sensor's model
BsEntryContents ==
    {BsEntry(Title_a7, Category1, <<"a">>, 2),
     BsEntry(Title_7a, Category1, PyNone, 1),      \* custom is None
     BsEntry(Title_a7, <<"7">>, Absent, 0),        \* other category, same title
     BsEntry(Absent, Category1, <<"7">>, 1),       \* no title
     BsEntry(Title_7a, Absent, <<"7">>, 1)}        \* no category

SensorCategories == {NoCategory, Category1}

SortOptions == {DEFAULT_SORT_ENTRIES_BY, ATTR_DISTANCE, "custom", "does not exist"}

\* the entries of the RSS sensor's cycle model
RssEntryContents ==
    {RssEntry(0, PointGeometry(<<1, 2>>), "Advice"),            \* at distance 1
     RssEntry(0, PointGeometry(<<2, 2>>), "Not Applicable"),    \* at distance 2
     RssEntry(0, LineStringGeometry, "Advice"),                 \* unsupported kind
     RssEntry(0, NoWhere, "Advice"),                            \* no location
     RssEntry(0, PointGeometry(<<1, 2>>), "Planned Burn")}      \* no such sensor

\* the features of the GeoJSON sensor's cycle model
JsonFeatureContents ==
    {JsonFeature(0, PointGeometry(<<1, 2>>), "Advice"),          \* at distance 1
     JsonFeature(0, CollectionGeometry(<<PointGeometry(<<1, 1>>)>>),
                 "Not Applicable"),                               \* at distance 0
     JsonFeature(0, PolygonGeometry(<<<<1, 1>>>>), "Advice"),     \* unsupported kind
     JsonFeature(0, PointGeometry(<<1, 2>>), "Planned Burn"),     \* no such sensor
     JsonFeature(0, PointGeometry(<<1, 1>>), "None")}             \* no alert level

\* the geometries handed to the distance calculators: every ring of up to
\* MaxRing grid points, the point at distance 2, a line string, and the
\* collections of up to two of these nested up to MaxDepth deep
Rings == UNION {[1..k -> GridPoints] : k \in 1..MaxRing}

RECURSIVE NestedGeometries(_)
NestedGeometries(depth) ==
    LET simple == {PointGeometry(<<2, 2>>), LineStringGeometry}
    IN  IF depth = 0 THEN simple
        ELSE simple \cup {CollectionGeometry(gs) :
                             gs \in SeqsUpTo(NestedGeometries(depth - 1), 2)}

GeoInputs == {PolygonGeometry(r) : r \in Rings} \cup NestedGeometries(MaxDepth)

\* entries for the rule evaluation: at home, any title or none
RuleEntryContents ==
    {Entry(0, Attrs(t, Category1), PointGeometry(<<1, 1>>), NoValue, NoValue) :
        t \in Strings \cup {Absent}}

\* feedparser.parse: the entry objects of one cycle, numbered in feed order
Parsed(contents) == [i \in 1..Len(contents) |-> [contents[i] EXCEPT !.obj = i]]

(***************************************************************************)
(* Initial states and actions.                                             *)
(***************************************************************************)
GeoRssIdle ==
    /\ feed = <<>>
    /\ available_entries = <<>>
    /\ keep_entries = <<>>
    /\ feed_entries = <<>>
    /\ fired = <<>>
    /\ raised = "none"

GeoRssOff ==
    /\ radius_in_km = 0
    /\ attributes_definition = <<>>
    /\ filters_definition = <<>>
    /\ include_in_summary = <<>>
    /\ GeoRssIdle

RssIdle ==
    /\ rss_feed = <<>>
    /\ rss_incidents = <<>>
    /\ rss_state = [l \in ALERT_LEVELS |-> <<>>]
    /\ rss_raised = "none"
    /\ rss_tasks = {}
    /\ rss_waiting = 0

RssOff ==
    /\ rss_radius = 0
    /\ RssIdle

JsonIdle ==
    /\ json_value = NoData
    /\ json_incidents = <<>>
    /\ json_state = [l \in ALERT_LEVELS |-> <<>>]
    /\ json_raised = "none"
    /\ json_tasks = {}

JsonOff ==
    /\ json_radius = 0
    /\ JsonIdle

GeoOff ==
    /\ geo_in = NoGeometry
    /\ geo_out = <<>>

FrOff ==
    /\ fr_status = "none"
    /\ fr_managed = {}
    /\ fr_sent = <<>>
    /\ fr_pending = {}
    /\ fr_entities = {}
    /\ fr_on_delete = {}
    /\ fr_on_update = {}

SetupOff ==
    /\ managers = <<>>
    /\ storage_data = <<>>
    /\ last_manager = 0
    /\ feed_categories = <<>>
    /\ discovered = <<>>
    /\ devices = <<>>
    /\ platform_raised = "none"

\* GeoRssEventBinarySensor.__init__ (lines 56-64)
BsIdle ==
    /\ bs_manager = <<>>
    /\ bs_sorted = <<>>
    /\ bs_state = FALSE
    /\ bs_attributes = <<>>
    /\ bs_raised = "none"

BsOff ==
    /\ bs_category = NoCategory
    /\ bs_sort_by = DEFAULT_SORT_ENTRIES_BY
    /\ bs_reverse = DEFAULT_SORT_ENTRIES_REVERSE
    /\ BsIdle

NumOff ==
    /\ num_speed = 0
    /\ num_room = 0
    /\ num_call = NoCall
    /\ num_asked = NotAsked

\* setup() of geo_rss_events with one configured feed
InitGeoRss ==
    /\ platform = "geo_rss_events"
    /\ radius_in_km \in Radii
    /\ attributes_definition \in
           {<<>>, <<AttributeDefinition("custom", "title", G_digits)>>,
            <<AttributeDefinition("custom", "nonexistent", G_digits)>>}
    /\ filters_definition \in {<<>>, <<FilterDefinition("title", P_a)>>}
    /\ include_in_summary = <<>>
    /\ GeoRssIdle
    /\ RssOff
    /\ JsonOff
    /\ GeoOff
    /\ FrOff
    /\ SetupOff
    /\ BsOff
    /\ NumOff

\* async_setup_platform of the RSS sensor (lines 68-97)
InitRss ==
    /\ platform = "nsw_rural_fire_service_rss"
    /\ rss_radius = 1
    /\ RssIdle
    /\ GeoRssOff
    /\ JsonOff
    /\ GeoOff
    /\ FrOff
    /\ SetupOff
    /\ BsOff
    /\ NumOff

\* async_setup_platform of the GeoJSON sensor (lines 61-92)
InitJson ==
    /\ platform = "nsw_rural_fire_service"
    /\ json_radius = 1
    /\ JsonIdle
    /\ GeoRssOff
    /\ RssOff
    /\ GeoOff
    /\ FrOff
    /\ SetupOff
    /\ BsOff
    /\ NumOff

\* one scheduled update of the GeoRSS feed manager
Update ==
    /\ platform = "geo_rss_events"
    /\ \E contents \in SeqsUpTo(EntryContents, MaxEntries) :
           FilterEntries(Parsed(contents))
    /\ UNCHANGED <<platform, rss_vars, json_vars, geo_vars, fr_vars, setup_vars, bs_vars, num_vars>>

\* one scheduled update of the RSS sensor's updater
RssUpdate ==
    /\ platform = "nsw_rural_fire_service_rss"
    /\ rss_waiting < MaxWaiting
    /\ \E contents \in SeqsUpTo(RssEntryContents, MaxEntries) :
           RssAsyncUpdate(Parsed(contents))
    /\ UNCHANGED <<platform, georss_vars, json_vars, geo_vars, fr_vars, setup_vars, bs_vars, num_vars>>

\* the state updates that a suspended cycle of the RSS sensor waits for
\* (line 201) are done and the cycle ends
RssTasksDone ==
    /\ platform = "nsw_rural_fire_service_rss"
    /\ rss_waiting > 0
    /\ rss_waiting' = rss_waiting - 1
    /\ UNCHANGED <<platform, georss_vars, json_vars, geo_vars, fr_vars, setup_vars, bs_vars, num_vars,
                   rss_radius, rss_feed, rss_incidents, rss_state, rss_raised,
                   rss_tasks>>

\* one scheduled update of the GeoJSON sensor's updater
JsonUpdate ==
    /\ platform = "nsw_rural_fire_service"
    /\ \E value \in {NoData} \cup
                      {Retrieved(Parsed(c)) :
                           c \in SeqsUpTo(JsonFeatureContents, MaxEntries)} :
           JsonAsyncUpdate(value)
    /\ UNCHANGED <<platform, georss_vars, rss_vars, geo_vars, fr_vars, setup_vars, bs_vars, num_vars>>

\* async_setup_platform of the flights feed (lines 64-83)
InitFlights ==
    /\ platform = "flightradar24_local_feed"
    /\ fr_status = "none"
    /\ fr_managed = {}
    /\ fr_sent = <<>>
    /\ fr_pending = {}
    /\ fr_entities = {}
    /\ fr_on_delete = {}
    /\ fr_on_update = {}
    /\ GeoRssOff
    /\ RssOff
    /\ JsonOff
    /\ GeoOff
    /\ SetupOff
    /\ BsOff
    /\ NumOff

\* startup and the regular updates of the flights feed (lines 111-120)
FlightsUpdate ==
    /\ platform = "flightradar24_local_feed"
    /\ \E status \in {"OK", "ERROR"}, current_ids \in SUBSET FlightIds :
           FeedManagerUpdate(status, current_ids)
    /\ UNCHANGED <<platform, georss_vars, rss_vars, json_vars, geo_vars, setup_vars, bs_vars, num_vars>>

\* hass adds a new flight entity
FlightAdded ==
    /\ platform = "flightradar24_local_feed"
    /\ \E external_id \in FlightIds : async_added_to_hass(external_id)
    /\ UNCHANGED <<platform, georss_vars, rss_vars, json_vars, geo_vars, setup_vars, bs_vars, num_vars>>

\* setup() of geo_rss_events with two configured feeds: every manager is
\* given the same StoredData object
InitSetup ==
    /\ platform = "geo_rss_events setup"
    /\ \E n1, n2 \in FeedNames :
           \E id2 \in (IF n1 = n2 THEN EntityIds(n2) ELSE {n2}) :
               /\ managers = <<GeoRssFeedManager(StoredData, n1, n1),
                               GeoRssFeedManager(StoredData, n2, id2)>>
               /\ storage_data = <<[id \in {n1, id2} |-> 0]>>
    /\ last_manager = 0
    /\ feed_categories \in [1..2 -> CategoryLists]
    /\ discovered = discovery_of(managers[1], feed_categories[1])
                    \o discovery_of(managers[2], feed_categories[2])
    /\ devices = <<>>
    /\ platform_raised = "none"
    /\ GeoRssOff
    /\ RssOff
    /\ JsonOff
    /\ GeoOff
    /\ FrOff
    /\ BsOff
    /\ NumOff

\* one scheduled update of one of the managers
ManagerUpdate ==
    /\ platform = "geo_rss_events setup"
    /\ \E m \in 1..Len(managers), record \in 1..MaxEntries :
           ManagerCycle(m, record)
    /\ UNCHANGED <<platform, georss_vars, rss_vars, json_vars, geo_vars, fr_vars,
                   bs_vars, num_vars>>

\* hass loads the sensor platform for one load_platform call of setup()
LoadPlatform ==
    /\ platform = "geo_rss_events setup"
    /\ LoadNextPlatform
    /\ UNCHANGED <<platform, georss_vars, rss_vars, json_vars, geo_vars, fr_vars,
                   bs_vars, num_vars>>

\* a binary sensor of a manager, with the sort options of its state
InitBinarySensor ==
    /\ platform = "binary_sensor geo_rss_events"
    /\ bs_category \in SensorCategories
    /\ bs_sort_by \in SortOptions
    /\ bs_reverse \in BOOLEAN
    /\ BsIdle
    /\ GeoRssOff
    /\ RssOff
    /\ JsonOff
    /\ GeoOff
    /\ FrOff
    /\ SetupOff
    /\ NumOff

\* update() after the manager has called the sensor's update listener
BinarySensorUpdate ==
    /\ platform = "binary_sensor geo_rss_events"
    /\ \E contents \in SeqsUpTo(BsEntryContents, MaxEntries) :
           update(Parsed(contents))
    /\ UNCHANGED <<platform, georss_vars, rss_vars, json_vars, geo_vars, fr_vars,
                   setup_vars, num_vars>>

\* async_setup_entry of the diffuser numbers (lines 28-42)
InitNumber ==
    /\ platform = "rituals_perfume_genie number"
    /\ num_speed \in MIN_PERFUME_AMOUNT..MAX_PERFUME_AMOUNT
    /\ num_room \in MIN_ROOM_SIZE..MAX_ROOM_SIZE
    /\ num_call = NoCall
    /\ num_asked = NotAsked
    /\ GeoRssOff
    /\ RssOff
    /\ JsonOff
    /\ GeoOff
    /\ FrOff
    /\ SetupOff
    /\ BsOff

\* the number.set_value service on the perfume amount entity
PerfumeSetValue ==
    /\ platform = "rituals_perfume_genie number"
    /\ \E value \in Floats : perfume_async_set_value(value)
    /\ UNCHANGED <<platform, georss_vars, rss_vars, json_vars, geo_vars, fr_vars,
                   setup_vars, bs_vars>>

\* the number.set_value service on the room size entity
RoomSetValue ==
    /\ platform = "rituals_perfume_genie number"
    /\ \E value \in Floats : room_async_set_value(value)
    /\ UNCHANGED <<platform, georss_vars, rss_vars, json_vars, geo_vars, fr_vars,
                   setup_vars, bs_vars>>

\* setup() with rule lists of up to MaxRules definitions
InitRules ==
    /\ platform = "geo_rss_events"
    /\ radius_in_km = 1
    /\ attributes_definition \in SeqsUpTo(AttributeRules, MaxRules)
    /\ filters_definition \in SeqsUpTo(FilterRules, MaxRules)
    /\ include_in_summary = <<>>
    /\ GeoRssIdle
    /\ RssOff
    /\ JsonOff
    /\ GeoOff
    /\ FrOff
    /\ SetupOff
    /\ BsOff
    /\ NumOff

\* the first update after setup, on a feed of at most one entry
UpdateRules ==
    /\ fired = <<>>
    /\ raised = "none"
    /\ \E contents \in SeqsUpTo(RuleEntryContents, 1) :
           FilterEntries(Parsed(contents))
    /\ UNCHANGED <<platform, rss_vars, json_vars, geo_vars, fr_vars, setup_vars, bs_vars, num_vars>>

NextRules == UpdateRules

SpecRules == InitRules /\ [][NextRules]_vars

\* the distance calculators on their own, each followed by the distance
\* test of its update loop
InitGeo ==
    /\ platform = "calculators"
    /\ geo_in \in GeoInputs
    /\ geo_out = <<>>
    /\ radius_in_km \in Radii
    /\ rss_radius = radius_in_km
    /\ attributes_definition = <<>>
    /\ filters_definition = <<>>
    /\ include_in_summary = <<>>
    /\ GeoRssIdle
    /\ RssIdle
    /\ JsonOff
    /\ FrOff
    /\ SetupOff
    /\ BsOff
    /\ NumOff

Computed(by, distance, kept) == <<[by |-> by, distance |-> distance, kept |-> kept]>>

\* geo_rss_events.py, lines 193-195
GeoRssDistance ==
    /\ platform = "calculators"
    /\ geo_out = <<>>
    /\ LET distance == distance_to_geometry(geo_in)
       IN  geo_out' = Computed("GeoDistanceHelper", distance,
                               within_radius(distance, radius_in_km))
    /\ UNCHANGED <<platform, geo_in, georss_vars, rss_vars, json_vars, fr_vars, setup_vars, bs_vars, num_vars>>

\* nsw_rural_fire_service_rss.py, lines 178-180
RssDistance ==
    /\ platform = "calculators"
    /\ geo_out = <<>>
    /\ LET distance == rss_calculate_distance_to_geometry(geo_in)
       IN  geo_out' = Computed("rss", distance,
                               distance # IndexError
                               /\ rss_within_radius(distance, rss_radius))
    /\ UNCHANGED <<platform, geo_in, georss_vars, rss_vars, json_vars, fr_vars, setup_vars, bs_vars, num_vars>>

\* nsw_rural_fire_service.py, lines 173-176
JsonDistance ==
    /\ platform = "calculators"
    /\ geo_out = <<>>
    /\ LET distance == json_calculate_distance_to_geometry(geo_in)
       IN  geo_out' = Computed("json", distance,
                               json_within_radius(distance, rss_radius))
    /\ UNCHANGED <<platform, geo_in, georss_vars, rss_vars, json_vars, fr_vars, setup_vars, bs_vars, num_vars>>

\* one of the platforms is set up, or the calculators are used on their own
Init ==
    \/ InitGeoRss
    \/ InitRss
    \/ InitJson
    \/ InitFlights
    \/ InitSetup
    \/ InitGeo

Next ==
    \/ Update
    \/ RssUpdate
    \/ RssTasksDone
    \/ JsonUpdate
    \/ FlightsUpdate
    \/ FlightAdded
    \/ ManagerUpdate
    \/ LoadPlatform
    \/ GeoRssDistance
    \/ RssDistance
    \/ JsonDistance

Spec == Init /\ [][Next]_vars

\* a binary sensor on its own: the manager's event calls update_callback
\* (binary_sensor/geo_rss_events.py, lines 125-132)
NextBinarySensor == BinarySensorUpdate

SpecBinarySensor == InitBinarySensor /\ [][NextBinarySensor]_vars

\* the two number entities of a diffuser: hass calls async_set_value
NextNumber ==
    \/ PerfumeSetValue
    \/ RoomSetValue

SpecNumber == InitNumber /\ [][NextNumber]_vars

\* the flights platform on its own: the feed is updated at every scan interval
\* (async_track_time_interval, lines 116-120) and hass runs the task that adds
\* a new entity (async_add_entities, line 130)
NextFlights ==
    \/ FlightsUpdate
    \/ FlightAdded

SpecFlights ==
    /\ InitFlights
    /\ [][NextFlights]_vars
    /\ WF_vars(FlightsUpdate)
    /\ \A external_id \in FlightIds :
           WF_vars(FlightAdded /\ external_id \notin fr_pending')

(***************************************************************************)
(* What the claims speak about, stated without the code's algorithms.      *)
(***************************************************************************)
\* the entry objects of the latest cycle
Objects == 1..Len(available_entries)

\* the entry passed the distance step: the loop attached a distance to it
PassedDistance(i) == available_entries[i].distance # NoValue

\* the entry was appended to keep_entries
Kept(i) == \E j \in 1..Len(keep_entries) : keep_entries[j].obj = i

\* the atoms of p consume exactly the text t, atom k taking lens[k] characters
Consumes(p, lens, t) ==
    /\ SumSeq(lens) = Len(t)
    /\ \A k \in 1..Len(p) :
           LET off == SumSeq(SubSeq(lens, 1, k - 1))
           IN  /\ \A c \in 1..lens[k] : t[off + c] \in p[k].cls
               /\ p[k].rep = "1" => lens[k] = 1
               /\ p[k].rep = "+" => lens[k] >= 1

\* the regular expression describes the whole text t
Describes(p, t) == \E lens \in [1..Len(p) -> 0..Len(t)] : Consumes(p, lens, t)

\* the regular expression describes some prefix of s
PrefixMatches(p, s) == \E n \in 0..Len(s) : Describes(p, SubSeq(s, 1, n))

\* C1: an entry within the radius is not kept when a filter rule of a
\* non-empty filter list names an attribute that the entry does not carry
C1_MissingFilterAttributeDrops ==
    \A i \in Objects :
        (/\ PassedDistance(i)
         /\ filters_definition # <<>>
         /\ \E k \in 1..Len(filters_definition) :
                ~hasattr(available_entries[i], filters_definition[k].attribute))
        => ~Kept(i)

\* C2: an entry within the radius that carries every attribute the filter
\* rules name is kept exactly if every rule's regular expression matches a
\* prefix of the attribute value; with no filter rule it is kept
C2_KeptIffEveryRuleMatchesPrefix ==
    \A i \in Objects :
        (/\ PassedDistance(i)
         /\ \A k \in 1..Len(filters_definition) :
                hasattr(available_entries[i], filters_definition[k].attribute))
        => (Kept(i) <=>
                \A k \in 1..Len(filters_definition) :
                    PrefixMatches(filters_definition[k].regexp,
                        available_entries[i].attrs[filters_definition[k].attribute]))

\* an entry is kept by a rule that matches a proper prefix of the value only,
\* and another entry carrying the attribute is dropped by a filter list
C2_Witness ==
    /\ \E i \in Objects : \E k \in 1..Len(filters_definition) :
           /\ Kept(i)
           /\ \A j \in 1..Len(filters_definition) :
                  hasattr(available_entries[i], filters_definition[j].attribute)
           /\ ~Describes(filters_definition[k].regexp,
                  available_entries[i].attrs[filters_definition[k].attribute])

\* the entry objects of the RSS sensor's latest cycle, and those that became
\* an incident
RssObjects == 1..Len(rss_feed)

RssIncident(i) == \E j \in 1..Len(rss_incidents) : rss_incidents[j].obj = i

\* every entry of the RSS sensor's latest cycle went through the loop
RssLoopCompleted == rss_raised # "AttributeError"

\* C3: an entry with a geometry passes the distance step exactly if its
\* distance is at most the radius; nothing farther away is kept or published
C3_WithinRadiusIffDistanceAtMostRadius ==
    /\ \A i \in Objects :
           entry_geometry(feed[i]) # NoGeometry =>
               (PassedDistance(i) <=>
                   distance_to_geometry(entry_geometry(feed[i])) <= radius_in_km)
    /\ \A i \in Objects :
           Kept(i) => distance_to_geometry(entry_geometry(feed[i])) <= radius_in_km
    /\ \A e \in 1..Len(fired) : \A j \in 1..Len(fired[e].entries) :
           fired[e].entries[j].distance <= radius_in_km
    /\ RssLoopCompleted =>
           \A i \in RssObjects :
               RssIncident(i) <=>
                   rss_calculate_distance_to_geometry(rss_feed[i].where) <= rss_radius
    /\ \A l \in DOMAIN rss_state : \A j \in 1..Len(rss_state[l]) :
           rss_state[l][j].distance <= rss_radius

\* one entry exactly at the radius is kept and published while another one,
\* farther away, is not
C3_Witness ==
    /\ Len(fired) = 1
    /\ \E i, j \in Objects :
           /\ distance_to_geometry(entry_geometry(feed[i])) = radius_in_km
           /\ Kept(i)
           /\ \E n \in 1..Len(fired[1].entries) :
                  fired[1].entries[n].distance = radius_in_km
           /\ entry_geometry(feed[j]) # NoGeometry
           /\ distance_to_geometry(entry_geometry(feed[j])) > radius_in_km
           /\ distance_to_geometry(entry_geometry(feed[j])) < Inf
           /\ ~Kept(j)

\* C4: the kept entries, and the entries of the summary event built from
\* them, are entries of the cycle's feed, each at most once and in feed order
C4_KeptIsSubsequenceOfFeed ==
    /\ \A j \in 1..Len(keep_entries) :
           /\ keep_entries[j].obj \in Objects
           /\ keep_entries[j] = available_entries[keep_entries[j].obj]
           /\ keep_entries[j].where = feed[keep_entries[j].obj].where
           /\ \A a \in DOMAIN feed[keep_entries[j].obj].attrs :
                  keep_entries[j].attrs[a] = feed[keep_entries[j].obj].attrs[a]
    /\ \A j, k \in 1..Len(keep_entries) :
           j < k => keep_entries[j].obj < keep_entries[k].obj
    /\ \A e \in 1..Len(fired) :
           /\ Len(fired[e].entries) = Len(keep_entries)
           /\ \A j \in 1..Len(keep_entries) :
                  /\ fired[e].entries[j].title = keep_entries[j].attrs[ATTR_TITLE]
                  /\ fired[e].entries[j].distance = keep_entries[j].distance
           /\ feed_entries = keep_entries

\* two different entries are kept and published
C4_Witness ==
    /\ Len(fired) = 1
    /\ Len(keep_entries) >= 2
    /\ keep_entries[1].attrs[ATTR_TITLE] # keep_entries[2].attrs[ATTR_TITLE]

\* the lengths with which the atoms of p consume a text that starts at
\* position st of s
MatchesAt(p, s, st) ==
    {lens \in [1..Len(p) -> 0..Len(s)] :
        /\ st + SumSeq(lens) - 1 <= Len(s)
        /\ Consumes(p, lens, SubSeq(s, st, st + SumSeq(lens) - 1))}

\* lens takes more than other at the first atom where they differ
Greedier(lens, other) ==
    \E k \in 1..Len(lens) :
        /\ lens[k] > other[k]
        /\ \A j \in 1..k - 1 : lens[j] = other[j]

\* the text of the group custom_attribute in the first match of p found
\* anywhere in s (the leftmost start, greedy repetitions), "" without match
FirstGroupText(p, s) ==
    LET starts == {st \in 1..Len(s) + 1 : MatchesAt(p, s, st) # {}}
    IN  IF starts = {} THEN <<>>
        ELSE LET st   == CHOOSE a \in starts : \A b \in starts : a <= b
                 lens == CHOOSE l \in MatchesAt(p, s, st) :
                             \A o \in MatchesAt(p, s, st) : o = l \/ Greedier(l, o)
                 from == st + SumSeq([k \in 1..Len(p) |->
                             IF \E g \in 1..k : p[g].grp THEN 0 ELSE lens[k]])
                 size == SumSeq([k \in 1..Len(p) |-> IF p[k].grp THEN lens[k] ELSE 0])
             IN  SubSeq(s, from, from + size - 1)

\* no later attribute rule writes the same derived attribute
WritesLast(k) ==
    \A j \in k + 1..Len(attributes_definition) :
        attributes_definition[j].name # attributes_definition[k].name

\* C5: for every attribute rule and every kept entry that carries the rule's
\* source, the rule sets the derived attribute to the group's text in the
\* first match found anywhere in the source value, and to "" without match
C5_DerivedAttributeIsFirstSearchMatch ==
    \A i \in Objects : \A k \in 1..Len(attributes_definition) :
        (/\ Kept(i)
         /\ hasattr(feed[i], attributes_definition[k].source)
         /\ WritesLast(k))
        => /\ hasattr(available_entries[i], attributes_definition[k].name)
           /\ available_entries[i].attrs[attributes_definition[k].name] =
                  FirstGroupText(attributes_definition[k].regexp,
                                 feed[i].attrs[attributes_definition[k].source])

\* a kept entry whose derived attribute comes from a match that does not
\* start at the beginning of the source value
C5_Witness ==
    \E i \in Objects : \E k \in 1..Len(attributes_definition) :
        /\ Kept(i)
        /\ hasattr(feed[i], attributes_definition[k].source)
        /\ WritesLast(k)
        /\ available_entries[i].attrs[attributes_definition[k].name] # <<>>
        /\ MatchesAt(attributes_definition[k].regexp,
                     feed[i].attrs[attributes_definition[k].source], 1) = {}

\* C6: when the source of an attribute rule is absent from an entry, the
\* derived attribute is "", no error is raised, and the entry and all other
\* entries of the cycle are processed and published
C6_MissingSourceGivesEmptyAndPublishes ==
    \A i \in Objects : \A k \in 1..Len(attributes_definition) :
        (/\ PassedDistance(i)
         /\ ~hasattr(feed[i], attributes_definition[k].source))
        => /\ available_entries[i].attrs[attributes_definition[k].name] = <<>>
           /\ raised = "none"
           /\ Len(fired) = 1
           /\ Len(fired[1].entries) = Len(keep_entries)

\* twice the signed area of the triangle a, b, c
Cross(a, b, c) == (b[1] - a[1]) * (c[2] - a[2]) - (b[2] - a[2]) * (c[1] - a[1])

\* the vertex after the i-th one on the closed ring
NextVertex(ring, i) == ring[(i % Len(ring)) + 1]

\* the point lies in the interior or on the boundary of the ring: the ring
\* encloses an area and the point is on the same side of, or on, every edge
RingContains(ring, point) ==
    /\ Len(ring) >= 3
    /\ SumSeq([i \in 1..Len(ring) |->
           ring[i][1] * NextVertex(ring, i)[2] - NextVertex(ring, i)[1] * ring[i][2]]) # 0
    /\ \/ \A i \in 1..Len(ring) : Cross(ring[i], NextVertex(ring, i), point) >= 0
       \/ \A i \in 1..Len(ring) : Cross(ring[i], NextVertex(ring, i), point) <= 0

\* the calculator gives distance 0 to a polygon around home and keeps it
PolygonAroundHomeIsAtZero(by) ==
    \A c \in 1..Len(geo_out) :
        (/\ geo_out[c].by = by
         /\ geo_in.type = "Polygon"
         /\ RingContains(geo_in.ring, rss_home_coordinates))
        => /\ geo_out[c].distance = 0
           /\ geo_out[c].kept

\* C7: a polygon whose ring contains the home point in its interior or on
\* its boundary has distance 0 and is kept for every radius
C7_PolygonAroundHomeHasDistanceZero ==
    /\ PolygonAroundHomeIsAtZero("GeoDistanceHelper")
    /\ PolygonAroundHomeIsAtZero("rss")

\* the distances of all points that a geometry holds, through any nesting
RECURSIVE PointDistances(_)
PointDistances(geometry) ==
    IF geometry.type = "Point"
    THEN {haversine(geometry.coordinates, rss_home_coordinates)}
    ELSE IF geometry.type = "GeometryCollection"
         THEN UNION {PointDistances(geometry.geometries[i]) :
                        i \in 1..Len(geometry.geometries)}
    ELSE {}

Least(S) == IF S = {} THEN Inf ELSE CHOOSE m \in S : \A n \in S : m <= n

\* C8: the distance to a collection is the least distance to the geometries
\* it holds, through nested collections, and infinite for an empty one; a
\* collection holding a geometry within the radius is kept
C8_CollectionDistanceIsMinimum ==
    \A c \in 1..Len(geo_out) :
        (geo_out[c].by = "json" /\ geo_in.type = "GeometryCollection")
        => /\ geo_out[c].distance = Least(PointDistances(geo_in))
           /\ (\E d \in PointDistances(geo_in) : d <= rss_radius) => geo_out[c].kept
           /\ geo_in.geometries = <<>> => geo_out[c].distance = Inf

\* a kept collection whose only point within the radius lies in a nested
\* collection that is not its first geometry
C8_Witness ==
    /\ Len(geo_out) = 1
    /\ geo_out[1].by = "json"
    /\ geo_out[1].kept
    /\ geo_in.type = "GeometryCollection"
    /\ Len(geo_in.geometries) = 2
    /\ geo_in.geometries[1].type = "LineString"
    /\ geo_in.geometries[2].type = "GeometryCollection"

\* the kinds of geometry each calculator recognizes
Recognized(by) ==
    IF by = "json" THEN {"Point", "GeometryCollection"} ELSE {"Point", "Polygon"}

\* an error of the GeoRSS cycle comes from a kept entry without title or
\* category, one of the RSS cycle from an entry without location or from an
\* incident whose alert level has no sensor
GeoRssErrorFromOthers(i) ==
    raised # "none" =>
        \E j \in Objects \ {i} : Kept(j) /\ (~hasattr(feed[j], ATTR_TITLE)
                                            \/ ~hasattr(feed[j], ATTR_CATEGORY))

RssErrorFromOthers(i) ==
    rss_raised # "none" =>
        \E j \in RssObjects \ {i} :
            \/ rss_feed[j].where = NoWhere
            \/ RssIncident(j) /\ rss_feed[j].alert_level \notin
                                     ALERT_LEVELS \cup {"Not Applicable"}

\* the other entries of the cycle went through the distance step (the RSS
\* sensor's loop ends at an entry other than i that has no location)
GeoRssOthersEvaluated(i) ==
    \A j \in Objects \ {i} :
        entry_geometry(feed[j]) # NoGeometry =>
            (PassedDistance(j) <=>
                distance_to_geometry(entry_geometry(feed[j])) <= radius_in_km)

RssOthersEvaluated(i) ==
    \A j \in RssObjects \ {i} :
        (\A k \in 1..j : k # i => rss_feed[k].where # NoWhere)
        => (RssIncident(j) <=>
               rss_calculate_distance_to_geometry(rss_feed[j].where) <= rss_radius)

\* C9: a geometry of a kind that is not recognized gets an infinite distance
\* and its entry is excluded; it raises no error and the other entries of
\* the cycle are evaluated
C9_UnrecognizedKindIsInfinitelyFar ==
    /\ \A c \in 1..Len(geo_out) :
           geo_in.type \notin Recognized(geo_out[c].by)
           => geo_out[c].distance = Inf /\ ~geo_out[c].kept
    /\ \A i \in Objects :
           (feed[i].where # NoWhere /\ feed[i].where.type \notin Recognized("GeoDistanceHelper"))
           => /\ ~PassedDistance(i)
              /\ ~Kept(i)
              /\ GeoRssErrorFromOthers(i)
              /\ GeoRssOthersEvaluated(i)
    /\ \A i \in RssObjects :
           (rss_feed[i].where # NoWhere /\ rss_feed[i].where.type \notin Recognized("rss"))
           => /\ ~RssIncident(i)
              /\ RssErrorFromOthers(i)
              /\ RssOthersEvaluated(i)

\* a cycle with an entry of an unrecognized kind publishes another entry
C9_Witness ==
    /\ raised = "none"
    /\ Len(fired) = 1
    /\ Len(fired[1].entries) = 1
    /\ \E i, j \in Objects :
           /\ feed[i].where.type = "LineString"
           /\ ~Kept(i)
           /\ i < j
           /\ Kept(j)

\* the GeoRSS feed manager drops an entry without geometry and goes on
GeoRssDropsEntryWithoutGeometry ==
    \A i \in Objects :
        entry_geometry(feed[i]) = NoGeometry
        => /\ ~Kept(i)
           /\ GeoRssErrorFromOthers(i)
           /\ GeoRssOthersEvaluated(i)

\* the RSS sensor drops an entry without geometry and goes on
RssDropsEntryWithoutGeometry ==
    \A i \in RssObjects :
        rss_feed[i].where = NoWhere
        => /\ ~RssIncident(i)
           /\ rss_raised # "AttributeError"
           /\ RssOthersEvaluated(i)

\* C10: an entry with neither 'where' nor a geo_lat/geo_long pair is dropped
\* without any error, and the other entries of the cycle are processed
C10_EntryWithoutGeometryIsDroppedSilently ==
    /\ GeoRssDropsEntryWithoutGeometry
    /\ RssDropsEntryWithoutGeometry

\* the features of the GeoJSON sensor's latest cycle, by position
JsonObjects == 1..Len(json_value.features)

JsonIncident(i) == \E j \in 1..Len(json_incidents) : json_incidents[j].obj = i

\* the alert level that create_incident gives the incident of an entry
IncidentLevel(entry) ==
    IF entry.alert_level = "Not Applicable" THEN "Information" ELSE entry.alert_level

\* C11: a failure while one entry is processed (here: its alert level is not
\* one of the four known levels) is caught; the entry alone is excluded, the
\* other incidents of the batch reach their sensors and no error escapes
C11_EntryFailureExcludesOnlyThatEntry ==
    /\ \A i \in JsonObjects :
           (JsonIncident(i) /\ IncidentLevel(json_value.features[i]) \notin ALERT_LEVELS)
           => /\ json_raised = "none"
              /\ \A j \in JsonObjects \ {i} :
                     LET level == IncidentLevel(json_value.features[j])
                     IN  (JsonIncident(j) /\ level \in ALERT_LEVELS)
                         => /\ json_state[level] = incidents_of(json_incidents, level)
                            /\ level \in json_tasks
    /\ \A i \in RssObjects :
           (RssIncident(i) /\ IncidentLevel(rss_feed[i]) \notin ALERT_LEVELS)
           => /\ rss_raised # "KeyError"
              /\ \A j \in RssObjects \ {i} :
                     LET level == IncidentLevel(rss_feed[j])
                     IN  (RssIncident(j) /\ level \in ALERT_LEVELS /\ rss_raised = "none")
                         => /\ rss_state[level] = incidents_of(rss_incidents, level)
                            /\ level \in rss_tasks

\* a cycle of the GeoJSON sensor whose fetch yields no data
JsonNoDataCycle ==
    /\ platform = "nsw_rural_fire_service"
    /\ ~json_value'.retrieved

\* a cycle of the RSS sensor whose fetch yields no entries (the other step
\* of that platform, the end of a suspended cycle, lowers rss_waiting)
RssNoDataCycle ==
    /\ platform = "nsw_rural_fire_service_rss"
    /\ rss_feed' = <<>>
    /\ rss_waiting' >= rss_waiting

\* C12: a cycle whose fetch yields no data changes no sensor state, awaits
\* no state update and raises nothing, and the cycle after it sets the
\* sensors of the levels it finds as any other cycle does
C12_NoDataCycleChangesNoState ==
    [][/\ JsonNoDataCycle
          => /\ json_state' = json_state
             /\ json_tasks' = {}
             /\ json_raised' = "none"
       /\ RssNoDataCycle
          => /\ rss_state' = rss_state
             /\ rss_tasks' = {}
             /\ rss_raised' = "none"
             /\ rss_waiting' = rss_waiting
       /\ (/\ platform = "nsw_rural_fire_service"
           /\ ~json_value.retrieved
           /\ json_value'.retrieved
           /\ json_raised' = "none")
          => \A l \in ALERT_LEVELS :
                 json_state'[l] = IF incidents_of(json_incidents', l) # <<>>
                                  THEN incidents_of(json_incidents', l)
                                  ELSE json_state[l]]_vars

\* the latest cycle retrieved no data and a sensor still holds the incidents
\* of an earlier cycle
C12_Witness ==
    /\ platform = "nsw_rural_fire_service"
    /\ ~json_value.retrieved
    /\ json_tasks = {}
    /\ \E l \in ALERT_LEVELS : json_state[l] # <<>>

\* C13: a cycle either completes, and then the summary event carries the
\* kept entries and every sensor holds the incidents of its level in the new
\* entry set, or it fails, and then no sensor state has been replaced, no
\* state update is awaited and no summary event has been fired
C13_CyclePublishesAllOrNothing ==
    [][/\ platform = "nsw_rural_fire_service"
          => /\ (json_value'.retrieved /\ json_raised' = "none")
                => \A l \in ALERT_LEVELS :
                       json_state'[l] = incidents_of(json_incidents', l)
             /\ (~json_value'.retrieved \/ json_raised' # "none")
                => json_state' = json_state /\ json_tasks' = {}
       /\ (platform = "nsw_rural_fire_service_rss" /\ rss_waiting' >= rss_waiting)
          => /\ rss_raised' = "none"
                => \A l \in ALERT_LEVELS :
                       rss_state'[l] = incidents_of(rss_incidents', l)
             /\ rss_raised' # "none"
                => rss_state' = rss_state /\ rss_tasks' = {}
       /\ platform = "geo_rss_events"
          => /\ raised' = "none"
                => /\ Len(fired') = 1
                   /\ Len(fired'[1].entries) = Len(keep_entries')
             /\ raised' # "none" => fired' = <<>>]_vars

\* a successful update of the flights feed (the other step of that platform,
\* an entity being added to hass, takes an id out of fr_pending)
FlightsCycle ==
    /\ platform = "flightradar24_local_feed"
    /\ fr_status' = "OK"
    /\ fr_pending \subseteq fr_pending'

\* C14: in a successful cycle with current ids C and previous ids P exactly
\* the ids of C \ P are notified as created, those of P \ C as deleted and
\* those of both as updated, one notification per id of C \cup P; on the
\* first run every current id is created and none is deleted
C14_NotificationsPartitionCurrentAndPrevious ==
    [][FlightsCycle
       => LET C == fr_managed'
              P == fr_managed
          IN  /\ SentIds(fr_sent', ADD_ENTITIES) = C \ P
              /\ SentIds(fr_sent', SIGNAL_DELETE_ENTITY) = P \ C
              /\ SentIds(fr_sent', SIGNAL_UPDATE_ENTITY) = C \cap P
              /\ Len(fr_sent') = Cardinality(C \cup P)
              /\ fr_status = "none"
                 => /\ SentIds(fr_sent', ADD_ENTITIES) = C
                    /\ SentIds(fr_sent', SIGNAL_DELETE_ENTITY) = {}]_vars

\* one cycle has created, updated and deleted an id each
C14_Witness ==
    /\ fr_status = "OK"
    /\ Len(fr_sent) = 3
    /\ \A s \in {ADD_ENTITIES, SIGNAL_UPDATE_ENTITY, SIGNAL_DELETE_ENTITY} :
           SentIds(fr_sent, s) # {}

\* C15: a deleted notification is sent only for an id of the immediately
\* preceding successful cycle; a cycle with the same ids as that cycle sends
\* updated notifications only, and an id absent from both gets none
C15_DeletedOnlyAfterPresence ==
    [][FlightsCycle
       => /\ SentIds(fr_sent', SIGNAL_DELETE_ENTITY) \subseteq fr_managed
          /\ fr_managed' = fr_managed
             => /\ \A k \in 1..Len(fr_sent') : fr_sent'[k].signal = SIGNAL_UPDATE_ENTITY
                /\ SentIds(fr_sent', SIGNAL_UPDATE_ENTITY) = fr_managed
          /\ \A id \in FlightIds \ (fr_managed \cup fr_managed') :
                 \A k \in 1..Len(fr_sent') : fr_sent'[k].external_id # id]_vars

\* a cycle with the ids of the cycle before it has sent updates for them,
\* while an id deleted earlier is still absent
C15_Witness ==
    /\ fr_status = "OK"
    /\ fr_managed # {}
    /\ fr_managed # FlightIds
    /\ SentIds(fr_sent, SIGNAL_UPDATE_ENTITY) = fr_managed
    /\ Len(fr_sent) = Cardinality(fr_managed)

\* C16: the cycles of one updater never overlap: no cycle starts while an
\* earlier one is suspended waiting for the sensors' state updates
C16_CyclesNeverOverlap == rss_waiting <= 1

\* the StoredData objects that the cycles of a manager read and write
ManagerObjects(m) == {managers[m].storage}

\* C17: the managers of different feeds share no mutable state: they hold no
\* common object, and a cycle of one manager leaves every object of the
\* other managers as it was
C17_ManagersShareNoState ==
    [][/\ \A m1, m2 \in 1..Len(managers) :
              m1 # m2 => ManagerObjects(m1) \cap ManagerObjects(m2) = {}
       /\ \A m \in 1..Len(managers') :
              (last_manager' = m /\ storage_data' # storage_data)
              => \A m2 \in 1..Len(managers) \ {m} :
                     \A o \in ManagerObjects(m2) :
                         storage_data'[o] = storage_data[o]]_vars

\* the orders in which the definitions of a list can be configured
Orders(s) ==
    {[k \in 1..Len(s) |-> s[f[k]]] :
        f \in {g \in [1..Len(s) -> 1..Len(s)] :
                  \A j, k \in 1..Len(s) : j # k => g[j] # g[k]}}

\* the output names of the attribute definitions are pairwise distinct
DistinctNames(definitions) ==
    \A j, k \in 1..Len(definitions) :
        j # k => definitions[j].name # definitions[k].name

\* no definition reads what another definition writes
IndependentSources(definitions) ==
    \A j, k \in 1..Len(definitions) :
        j # k => definitions[j].source # definitions[k].name

\* the entry as it enters the attribute step
Measured(i) == [feed[i] EXCEPT !.distance = available_entries[i].distance]

\* every order of the attribute definitions gives the entry that the cycle
\* has produced, and the filter decision that it has taken
SameInEveryOrder(i) ==
    \A q \in Orders(attributes_definition) :
        LET annotated == compute_attributes(Measured(i), q, 1)
        IN  /\ annotated = available_entries[i]
            /\ run_filters(annotated, filters_definition, 1) = Kept(i)

\* C18 as stated: with pairwise distinct output names the attribute
\* definitions give the same annotated entry and the same filter decision
\* in every order
C18_AnyOrderOfDistinctNames ==
    \A i \in Objects :
        (PassedDistance(i) /\ DistinctNames(attributes_definition))
        => SameInEveryOrder(i)

\* C18 amended: with pairwise distinct output names, none of which is the
\* source of another definition, the attribute definitions give the same
\* annotated entry and the same filter decision in every order
C18_AnyOrderOfIndependentRules ==
    \A i \in Objects :
        (/\ PassedDistance(i)
         /\ DistinctNames(attributes_definition)
         /\ IndependentSources(attributes_definition))
        => SameInEveryOrder(i)

\* two independent definitions have both derived a value for a kept entry
C18_Witness ==
    \E i \in Objects :
        /\ Kept(i)
        /\ Len(attributes_definition) = 2
        /\ DistinctNames(attributes_definition)
        /\ IndependentSources(attributes_definition)
        /\ \A k \in 1..2 :
               available_entries[i].attrs[attributes_definition[k].name] # <<>>

\* C19: filtering is monotonic in the rule list: an entry kept under the
\* configured filter definitions is kept under every list that these
\* definitions extend
C19_MoreFiltersKeepFewer ==
    \A i \in Objects :
        Kept(i) => \A n \in 0..Len(filters_definition) :
                       run_filters(available_entries[i],
                                   SubSeq(filters_definition, 1, n), 1)

\* an entry that the first definition keeps is dropped by the second
C19_Witness ==
    \E i \in Objects :
        /\ PassedDistance(i)
        /\ ~Kept(i)
        /\ Len(filters_definition) = 2
        /\ run_filters(available_entries[i], SubSeq(filters_definition, 1, 1), 1)

\* C20: an entry within the radius that lacks a title or a category is
\* published with the cycle's summary, and the other kept entries of the
\* cycle are published with it
C20_EntryWithoutTitleOrCategoryIsPublished ==
    \A i \in Objects :
        (/\ Kept(i)
         /\ \/ ~hasattr(feed[i], ATTR_TITLE)
            \/ ~hasattr(feed[i], ATTR_CATEGORY))
        => /\ raised = "none"
           /\ Len(fired) = 1
           /\ Len(fired[1].entries) = Len(keep_entries)
           /\ feed_entries = keep_entries

\* the entry passes the sensor's category filter
MatchesCategory(entry) ==
    \/ bs_category = NoCategory
    \/ /\ hasattr(entry, ATTR_CATEGORY)
       /\ entry.attrs[ATTR_CATEGORY] = bs_category

\* C21: the binary sensor is on exactly if the manager holds an entry of the
\* sensor's category (any entry when the sensor has no category), and its
\* attributes only hold titles of such entries; before the first update the
\* manager has handed over nothing and the sensor is off without attributes
C21_OnIffManagerHoldsEntryOfCategory ==
    platform = "binary_sensor geo_rss_events"
    => /\ bs_state <=> \E k \in 1..Len(bs_manager) : MatchesCategory(bs_manager[k])
       /\ \A j \in 1..Len(bs_attributes) :
              \E k \in 1..Len(bs_manager) :
                  /\ MatchesCategory(bs_manager[k])
                  /\ hasattr(bs_manager[k], ATTR_TITLE)
                  /\ bs_manager[k].attrs[ATTR_TITLE] = bs_attributes[j].title

\* the same for the updates that raise no error
BinarySensorOnIffEntryWhenNoError ==
    (platform = "binary_sensor geo_rss_events" /\ bs_raised = "none")
    => C21_OnIffManagerHoldsEntryOfCategory

\* update() has come to its sort: the category filter has raised no error
SortReached ==
    /\ platform = "binary_sensor geo_rss_events"
    /\ bs_manager # <<>>
    /\ \/ bs_category = NoCategory
       \/ \A k \in 1..Len(bs_manager) : hasattr(bs_manager[k], ATTR_CATEGORY)

\* the entries of the manager that pass the category filter, in its order
FilteredEntries == SelectSeq(bs_manager, MatchesCategory)

\* the entry has a value for the attribute that the sensor sorts by
HasSortValue(entry) ==
    /\ entry_has(entry, bs_sort_by)
    /\ bs_sort_by # ATTR_DISTANCE => entry.attrs[bs_sort_by] # PyNone

\* string a comes before string b: a is a proper prefix of b, or the first
\* character in which they differ has the smaller code point in a
StringBefore(a, b) ==
    \E n \in 1..Len(b) :
        /\ \A k \in 1..(n - 1) : k <= Len(a) /\ a[k] = b[k]
        /\ \/ Len(a) = n - 1
           \/ Len(a) >= n /\ Ord(a[n]) < Ord(b[n])

\* e1 is ordered as smaller than e2 by the attribute that the sensor sorts by
SortsBelow(e1, e2) ==
    IF ~HasSortValue(e2) THEN FALSE
    ELSE IF ~HasSortValue(e1) THEN TRUE
    ELSE IF bs_sort_by = ATTR_DISTANCE THEN e1.distance < e2.distance
    ELSE StringBefore(e1.attrs[bs_sort_by], e2.attrs[bs_sort_by])

\* C22: with sort_entries_by naming an attribute, update() lists the entries
\* of the sensor in ascending order of the attribute, descending when
\* sort_entries_reverse is true; an entry that lacks the attribute or holds
\* None for it counts as smaller than every entry with a value
C22_EntriesListedInSortOrder ==
    (SortReached /\ bs_sort_by # DEFAULT_SORT_ENTRIES_BY)
    => /\ Len(bs_sorted) = Len(FilteredEntries)
       /\ {bs_sorted[k].obj : k \in 1..Len(bs_sorted)}
              = {FilteredEntries[k].obj : k \in 1..Len(FilteredEntries)}
       /\ \A i, j \in 1..Len(bs_sorted) :
              i < j => IF bs_reverse
                       THEN ~SortsBelow(bs_sorted[i], bs_sorted[j])
                       ELSE ~SortsBelow(bs_sorted[j], bs_sorted[i])

\* an entry whose sort attribute is None has been moved in front of an
\* entry with a value that the manager holds before it
C22_Witness ==
    /\ SortReached
    /\ bs_sort_by = "custom"
    /\ ~bs_reverse
    /\ bs_raised = "none"
    /\ Len(bs_sorted) = 2
    /\ bs_sorted[1].obj = 2
    /\ ~HasSortValue(bs_sorted[1])
    /\ HasSortValue(bs_sorted[2])

\* C23: when sort_entries_by names an attribute that no entry carries,
\* update() leaves the entries in the manager's order, whatever
\* sort_entries_reverse is, and state and attributes are those of an update
\* without sort option
C23_SortByMissingAttributeKeepsOrder ==
    (/\ SortReached
     /\ bs_sort_by # DEFAULT_SORT_ENTRIES_BY
     /\ \A k \in 1..Len(bs_manager) : ~entry_has(bs_manager[k], bs_sort_by))
    => LET unsorted == category_filter(bs_manager, bs_category)
       IN  /\ bs_sorted = unsorted
           /\ bs_raised = "KeyError"
              <=> \E k \in 1..Len(unsorted) : ~hasattr(unsorted[k], ATTR_TITLE)
           /\ bs_raised = "none"
              => /\ bs_attributes = matrix(unsorted, Len(unsorted))
                 /\ bs_state = (Len(unsorted) # 0)

\* a reversed sort by an attribute that no entry carries has left two
\* entries in the manager's order
C23_Witness ==
    /\ SortReached
    /\ bs_sort_by = "does not exist"
    /\ bs_reverse
    /\ bs_raised = "none"
    /\ Len(bs_sorted) = 2
    /\ bs_sorted = bs_manager
    /\ Len(bs_attributes) = 2

\* the sensors that setup has created for a manager under a name
SensorsNamed(m, name) ==
    {j \in 1..Len(devices) : devices[j].manager = managers[m] /\ devices[j].name = name}

\* C24: when setup is done, every configured feed has exactly one binary
\* sensor per configured category, named '<feed name> <category>', or
\* exactly one named '<feed name>' when it has no categories, and there is
\* no other sensor
C24_OneSensorPerFeedAndCategory ==
    (platform = "geo_rss_events setup" /\ discovered = <<>>)
    => /\ \A m \in 1..Len(managers) :
              IF feed_categories[m] # <<>>
              THEN \A k \in 1..Len(feed_categories[m]) :
                       Cardinality(SensorsNamed(m,
                           sensor_name(managers[m].name, feed_categories[m][k]))) = 1
              ELSE Cardinality(SensorsNamed(m, managers[m].name)) = 1
       /\ \A j \in 1..Len(devices) :
              \E m \in 1..Len(managers) : devices[j].manager = managers[m]

\* the point lies strictly between the ends of the horizontal edge that
\* leaves vertex i of the ring (for the last vertex: the edge that wraps
\* back to the first)
OnHorizontalEdge(ring, i, point) ==
    LET a == ring[i]
        b == NextVertex(ring, i)
    IN  /\ a[2] = b[2]
        /\ a[2] = point[2]
        /\ \/ a[1] < point[1] /\ point[1] < b[1]
           \/ b[1] < point[1] /\ point[1] < a[1]

\* the RSS sensor's calculator has looked for home in the polygon geo_in
HomeSoughtInRing ==
    /\ platform = "calculators"
    /\ geo_in.type = "Polygon"
    /\ geo_out # <<>>
    /\ geo_out[1].by = "rss"

\* C25: point_in_polygon returns true when the point is a vertex of the
\* ring and when it lies strictly between the ends of a horizontal edge,
\* the edge from the last vertex back to the first included
C25_VertexOrHorizontalEdgeIsInside ==
    (/\ HomeSoughtInRing
     /\ \/ rss_home_coordinates \in Range(geo_in.ring)
        \/ \E i \in 1..Len(geo_in.ring) :
               OnHorizontalEdge(geo_in.ring, i, rss_home_coordinates))
    => /\ point_in_polygon(rss_home_coordinates, geo_in.ring) = "True"
       /\ geo_out[1].distance = 0

\* the same without the edge that wraps from the last vertex to the first
PointOnListedEdgeIsInside ==
    (/\ HomeSoughtInRing
     /\ \/ rss_home_coordinates \in Range(geo_in.ring)
        \/ \E i \in 1..(Len(geo_in.ring) - 1) :
               OnHorizontalEdge(geo_in.ring, i, rss_home_coordinates))
    => /\ point_in_polygon(rss_home_coordinates, geo_in.ring) = "True"
       /\ geo_out[1].distance = 0

\* the distances from home to the vertices of a ring, as the calculator
\* measures them
VertexDistances(by, ring) ==
    IF by = "rss"
    THEN {haversine(ring[i], rss_home_coordinates) : i \in 1..Len(ring)}
    ELSE {haversine(<<ring[i][2], ring[i][1]>>, home_coordinates) : i \in 1..Len(ring)}

\* the calculator has returned 0 or the least vertex distance for a ring of
\* one or two vertices
DegenerateRingGivesDistance(by) ==
    \A c \in 1..Len(geo_out) :
        (/\ platform = "calculators"
         /\ geo_out[c].by = by
         /\ geo_in.type = "Polygon"
         /\ Len(geo_in.ring) \in 1..2)
        => /\ geo_out[c].distance # IndexError
           /\ geo_out[c].distance \in {0, Least(VertexDistances(by, geo_in.ring))}

\* C26: the polygon distance of both calculators accepts a ring of one or
\* two vertices: it returns 0 or the least vertex distance and raises no
\* error
C26_DegenerateRingsGiveDistance ==
    /\ DegenerateRingGivesDistance("GeoDistanceHelper")
    /\ DegenerateRingGivesDistance("rss")

\* the same for the calculator of the GeoRSS component alone
GeoRssDegenerateRingsGiveDistance == DegenerateRingGivesDistance("GeoDistanceHelper")

\* the sensor of an alert level holds exactly the given entries of the feed
SensorHolds(state, objects) ==
    /\ Len(state) = Cardinality(objects)
    /\ {state[k].obj : k \in 1..Len(state)} = objects

\* C27: after a successful cycle each of the four sensors holds exactly the
\* incidents of the current feed that are within the radius and have its
\* alert level; a sensor whose level has no incident in the cycle counts 0
C27_SensorsHoldIncidentsOfCurrentCycle ==
    /\ (platform = "nsw_rural_fire_service_rss" /\ rss_raised = "none")
       => \A l \in ALERT_LEVELS :
              SensorHolds(rss_state[l],
                          {i \in RssObjects : /\ RssIncident(i)
                                              /\ IncidentLevel(rss_feed[i]) = l})
    /\ (/\ platform = "nsw_rural_fire_service"
        /\ json_value.retrieved
        /\ json_raised = "none")
       => \A l \in ALERT_LEVELS :
              SensorHolds(json_state[l],
                          {i \in JsonObjects : /\ JsonIncident(i)
                                               /\ IncidentLevel(json_value.features[i]) = l})

\* the same for the sensors whose level has an incident in the cycle
SensorsOfPresentLevelsHoldIncidents ==
    /\ (platform = "nsw_rural_fire_service_rss" /\ rss_raised = "none")
       => \A l \in ALERT_LEVELS :
              LET objects == {i \in RssObjects : /\ RssIncident(i)
                                                 /\ IncidentLevel(rss_feed[i]) = l}
              IN  objects # {} => SensorHolds(rss_state[l], objects)
    /\ (/\ platform = "nsw_rural_fire_service"
        /\ json_value.retrieved
        /\ json_raised = "none")
       => \A l \in ALERT_LEVELS :
              LET objects == {i \in JsonObjects :
                                 /\ JsonIncident(i)
                                 /\ IncidentLevel(json_value.features[i]) = l}
              IN  objects # {} => SensorHolds(json_state[l], objects)

\* the ids whose entity runs the callback of a signal in the coming update
Receives(signal, connected) == SentIds(fr_sent', signal) \cap connected

\* C28: an entity that has run _delete_callback is connected to neither
\* signal of its id, and a later update or delete signal of the id runs a
\* callback only in an entity that is in hass, never in a removed one
C28_RemovedEntityIsDisconnected ==
    [][FlightsCycle
       => /\ \A external_id \in Receives(SIGNAL_DELETE_ENTITY, fr_on_delete) :
                 /\ external_id \notin fr_on_delete'
                 /\ external_id \notin fr_on_update'
          /\ Receives(SIGNAL_DELETE_ENTITY, fr_on_delete) \subseteq fr_entities
          /\ Receives(SIGNAL_UPDATE_ENTITY, fr_on_update) \subseteq fr_entities
          /\ fr_on_delete' \subseteq fr_entities'
          /\ fr_on_update' \subseteq fr_entities']_vars

\* the latest update sent the delete signal of an id to its entity in hass
\* (an entity that is not yet added stays in fr_pending): the entity is
\* gone and connected to nothing
C28_Witness ==
    /\ platform = "flightradar24_local_feed"
    /\ fr_status = "OK"
    /\ \E external_id \in SentIds(fr_sent, SIGNAL_DELETE_ENTITY) :
           /\ external_id \notin fr_pending
           /\ external_id \notin fr_entities
           /\ external_id \notin fr_on_delete \cup fr_on_update

\* the entity of an id is waiting to be added to hass or is in hass
HasEntity(external_id) ==
    external_id \in fr_pending \cup fr_entities

\* C29: the entity of an id that the feed has removed is eventually removed
\* from hass, unless the feed brings the id back
C29_RemovedEntryLosesItsEntity ==
    \A external_id \in FlightIds :
        (/\ platform = "flightradar24_local_feed"
         /\ HasEntity(external_id)
         /\ external_id \notin fr_managed)
        ~> (~HasEntity(external_id) \/ external_id \in fr_managed)

\* the same for the entities that are in hass when the feed removes their id
C29_AddedEntityIsRemovedWithItsEntry ==
    [][FlightsCycle
       => \A external_id \in fr_entities \cap fr_managed :
              external_id \notin fr_managed' => external_id \notin fr_entities']_vars

\* a whole number of low..high
WholeNumberWithin(value, low, high) ==
    /\ value.kind = "finite"
    /\ \E n \in low..high : value.halves = 2 * n

\* what an async_set_value of an entity with the range low..high must do
ForwardsIffWholeAndInRange(method, low, high) ==
    LET value == num_asked'.value
    IN  IF WholeNumberWithin(value, low, high)
        THEN /\ num_call'.method = method
             /\ 2 * num_call'.argument = value.halves
        ELSE /\ num_call' = NoCall
             /\ num_speed' = num_speed
             /\ num_room' = num_room

\* C30: async_set_value of the perfume amount and of the room size calls the
\* diffuser with the value if and only if the value is a whole number of the
\* entity's range (1..3, 1..4); otherwise the diffuser is not called and its
\* settings stay as they are, so a call never carries another value
C30_ForwardsIffWholeNumberInRange ==
    [][platform = "rituals_perfume_genie number"
       => /\ num_asked'.entity = "DiffuserPerfumeAmount"
             => ForwardsIffWholeAndInRange("set_perfume_amount", 1, 3)
          /\ num_asked'.entity = "DiffuserRoomSize"
             => ForwardsIffWholeAndInRange("set_room_size", 1, 4)
          /\ num_call'.method # "none"
             => num_call'.argument \in 1..4]_vars

\* the room size 4.0 has been forwarded to the diffuser
C30_Witness ==
    /\ platform = "rituals_perfume_genie number"
    /\ num_asked = [entity |-> "DiffuserRoomSize", value |-> Float("finite", 8)]
    /\ num_call = [method |-> "set_room_size", argument |-> 4]

====
